---- MODULE Spec2Model ----
(***************************************************************************)
(* ChronicleClient (src/src/google_secops/chronicle/client.py): the        *)
(* submit-and-poll search calls search_udm and get_stats and the stats     *)
(* shaping _process_stats_results, as a state machine over one call        *)
(* (Spec, FairSpec) and over two calls running on one client (SpecCalls);  *)
(* the session property read by two threads (SpecSession); the request     *)
(* parameters of summarize_entity (SpecSummary).                           *)
(*                                                                         *)
(* JSON values are tagged records; a Python exception travelling through   *)
(* an expression is the pseudo-value [t |-> "exc", ...].                   *)
(***************************************************************************)
EXTENDS Integers, Sequences, FiniteSets, TLC

VARIABLES
    self,              \* the client's fields (__init__)
    method,            \* which method the call runs
    max_attempts,      \* the caller's argument
    query,             \* the caller's argument
    start_time,        \* the caller's argument, a datetime
    end_time,          \* the caller's argument, a datetime
    max_events,        \* the caller's argument
    max_values,        \* the caller's argument (get_stats)
    case_insensitive,  \* the caller's argument
    payload,           \* local payload, None before it is built
    pc,                \* "call", "loop", "sleep", "returned", "raised"
    response,          \* the submit POST's response
    operation_id,      \* local operation_id
    results_url,       \* local results_url
    attempt,           \* local attempt
    results_response,  \* the last poll GET's response
    outcome,           \* the value returned or the exception raised
    trace,             \* history: the requests and sleeps issued, in order
    urls,              \* history: the URLs the poll GETs were sent to
    all_pending,       \* history: every poll so far was a 200 with no flag set
    calls,             \* two calls on one client: each call's locals
    session,           \* two calls on one client: the requests in the session
    _session,          \* self._session: None or the authorized session
    created,           \* history: the authorized sessions constructed so far
    access,            \* threads using the client: each thread's position
    overlapped,        \* history: two threads' API calls have overlapped
    kwargs             \* summarize_entity: the caller's arguments

\* the caller's arguments beside max_attempts
arguments == <<query, start_time, end_time, max_events, max_values, case_insensitive>>

\* the state of two calls running on the one client
threads == <<calls, session>>

\* the state of the one call
single == <<method, max_attempts, arguments, payload, pc, response, operation_id,
            results_url, attempt, results_response, outcome, trace, urls,
            all_pending>>

\* the session property's state and the threads that read it
property == <<_session, created, access, overlapped>>

vars == <<self, kwargs, property, single, threads>>

----------------------------------------------------------------------------
(* Bounds *)

MaxAttempts == 3
MaxRows == 2
MaxCols == 2

----------------------------------------------------------------------------
(* JSON values *)

JNull == [t |-> "null"]
JBool(b) == [t |-> "bool", b |-> b]
JStr(s) == [t |-> "str", s |-> s]
JInt(n) == [t |-> "int", n |-> n]
JList(e) == [t |-> "list", e |-> e]
\* an object from a set of <<key, value>> pairs
dict(pairs) ==
    [t |-> "obj",
     f |-> [k \in {p[1] : p \in pairs} |-> (CHOOSE p \in pairs : p[1] = k)[2]]]
\* a response text that is not JSON
RawText(s) == [t |-> "raw", s |-> s]

JTrue == JBool(TRUE)
JFalse == JBool(FALSE)
EmptyDict == dict({})
EmptyList == JList(<<>>)

----------------------------------------------------------------------------
(* Python semantics used by the client *)

\* an exception raised by a builtin
Raise(x) == [t |-> "exc", x |-> x, fmt |-> "", args |-> <<>>]
\* raise APIError(f"...")
APIError(fmt, args) == [t |-> "exc", x |-> "APIError", fmt |-> fmt, args |-> args]
IsExc(v) == v.t = "exc"

\* o.get(k, d)
get(o, k, d) ==
    IF IsExc(o) THEN o
    ELSE IF o.t # "obj" THEN Raise("AttributeError")
    ELSE IF k \in DOMAIN o.f THEN o.f[k]
    ELSE d

\* o[k] on a dict
getitem(o, k) ==
    IF IsExc(o) THEN o
    ELSE IF o.t # "obj" THEN Raise("TypeError")
    ELSE IF k \in DOMAIN o.f THEN o.f[k]
    ELSE Raise("KeyError")

\* l[i] on a list, i counted from 0
index(l, i) ==
    IF IsExc(l) THEN l
    ELSE IF l.t = "obj" THEN Raise("KeyError")
    ELSE IF l.t # "list" THEN Raise("TypeError")
    ELSE IF i + 1 \in 1..Len(l.e) THEN l.e[i + 1]
    ELSE Raise("IndexError")

\* the truth value of v
truthy(v) ==
    CASE v.t = "null" -> FALSE
      [] v.t = "bool" -> v.b
      [] v.t = "str" -> v.s # ""
      [] v.t = "int" -> v.n # 0
      [] v.t = "list" -> v.e # <<>>
      [] v.t = "obj" -> DOMAIN v.f # {}
      [] OTHER -> TRUE

\* the second operand when it is truthy, else the first
or_second_first(a, b) == IF IsExc(b) THEN b ELSE IF truthy(b) THEN b ELSE a

\* a or b
or(a, b) == IF IsExc(a) THEN a ELSE IF truthy(a) THEN a ELSE b

\* len(v), as an integer or an exception
len(v) ==
    CASE IsExc(v) -> v
      [] v.t = "list" -> JInt(Len(v.e))
      [] v.t = "obj" -> JInt(Cardinality(DOMAIN v.f))
      [] OTHER -> Raise("TypeError")

\* response.json()
json(r) == IF r.text.t = "raw" THEN Raise("JSONDecodeError") ELSE r.text

----------------------------------------------------------------------------
(* search_udm and get_stats: the pure parts *)

\* f"{self.base_url}/{operation_id}:streamSearch"
stream_search_url(base_url, id) ==
    [base_url |-> base_url, operation_id |-> id, verb |-> ":streamSearch"]

\* a datetime, to the second and with its microseconds
datetime(date, time, microsecond) ==
    [date |-> date, time |-> time, microsecond |-> microsecond]

\* t.strftime("%Y-%m-%dT%H:%M:%S.000Z")
strftime(t) == JStr(<<t.date, "T", t.time, ".000Z">>)

\* search_udm: payload = {...}
search_udm_payload(q, start, end, events, insensitive) ==
    dict({<<"baselineQuery", JStr(q)>>,
          <<"baselineTimeRange", dict({<<"startTime", strftime(start)>>,
                                       <<"endTime", strftime(end)>>})>>,
          <<"caseInsensitive", JBool(insensitive)>>,
          <<"returnOperationIdOnly", JTrue>>,
          <<"eventList", dict({<<"maxReturnedEvents", JInt(events)>>})>>})

\* get_stats: payload = {...}
get_stats_payload(q, start, end, values, events, insensitive) ==
    dict({<<"baselineQuery", JStr(q)>>,
          <<"baselineTimeRange", dict({<<"startTime", strftime(start)>>,
                                       <<"endTime", strftime(end)>>})>>,
          <<"caseInsensitive", JBool(insensitive)>>,
          <<"returnOperationIdOnly", JTrue>>,
          <<"eventList", dict({<<"maxReturnedEvents", JInt(events)>>})>>,
          <<"fieldAggregations", dict({<<"maxValuesPerField", JInt(values)>>})>>,
          <<"generateAiOverview", JTrue>>})

\* what a step of a call does next
Return(v) == [k |-> "return", v |-> v]
Throw(e) == [k |-> "raise", v |-> e]
Continue == [k |-> "continue", v |-> JNull]

\* the extraction that hands on whatever it read, an empty id included
search_udm_operation_id_unchecked(operation) ==
    LET id == IF operation.t = "list"
              THEN get(index(operation, 0), "operation", JNull)
              ELSE or(get(operation, "operation", JNull),
                      get(operation, "name", JNull))
    IN  IF IsExc(id)
        THEN APIError("Error extracting operation ID. Response: {operation}, Error: {str(e)}",
                      <<operation, id>>)
        ELSE id

\* search_udm, "Extract operation ID from response": the id, or the APIError
search_udm_operation_id(operation) ==
    LET id == IF operation.t = "list"
              THEN get(index(operation, 0), "operation", JNull)
              ELSE or(get(operation, "operation", JNull),
                      get(operation, "name", JNull))
    IN  IF IsExc(id)
        THEN APIError("Error extracting operation ID. Response: {operation}, Error: {str(e)}",
                      <<operation, id>>)
        ELSE IF ~truthy(id)
        THEN APIError("No operation ID found in response: {operation}", <<operation>>)
        ELSE id

\* get_stats, "Extract operation ID from response": the id, or the APIError
get_stats_operation_id(operation) ==
    LET id == IF operation.t = "list"
              THEN get(index(operation, 0), "operation", JNull)
              ELSE or(get(operation, "operation", JNull),
                      get(operation, "name", JNull))
    IN  IF IsExc(id)
        THEN APIError("Error extracting operation ID. Response: {operation}, Error: {str(e)}",
                      <<operation, id>>)
        ELSE IF ~truthy(id)
        THEN APIError("No operation ID found in response: {operation}", <<operation>>)
        ELSE id

\* the submit error that names the response text alone
search_udm_initiate_error_text_only(r) ==
    APIError("Error initiating search: Status {response.status_code}, Response: {response.text}",
             <<r.text>>)

\* search_udm: raise APIError(f"Error initiating search: Status ..., Response: ...")
search_udm_initiate_error(r) ==
    APIError("Error initiating search: Status {response.status_code}, Response: {response.text}",
             <<JInt(r.status_code), r.text>>)

\* get_stats: raise APIError(f"Error initiating search: Status ..., Response: ...")
get_stats_initiate_error(r) ==
    APIError("Error initiating search: Status {response.status_code}, Response: {response.text}",
             <<JInt(r.status_code), r.text>>)

\* the submit response handled: the operation id, or the exception raised
search_udm_submitted(r) ==
    IF r.status_code # 200 THEN search_udm_initiate_error(r)
    ELSE IF IsExc(json(r)) THEN json(r)
    ELSE search_udm_operation_id(json(r))

get_stats_submitted(r) ==
    IF r.status_code # 200 THEN get_stats_initiate_error(r)
    ELSE IF IsExc(json(r)) THEN json(r)
    ELSE get_stats_operation_id(json(r))

\* the normalization that takes the last element of an array
last_if_list(results) ==
    IF IsExc(results) THEN results
    ELSE IF results.t = "list" THEN index(results, Len(results.e) - 1)
    ELSE results

\* if isinstance(results, list): results = results[0]
first_if_list(results) ==
    IF IsExc(results) THEN results
    ELSE IF results.t = "list" THEN index(results, 0)
    ELSE results

\* the completion test that stops at the first location holding a flag,
\* whatever its value
search_udm_done_first_present(results) ==
    LET missing == [t |-> "missing"]
        first(a, b) == IF IsExc(a) THEN a ELSE IF a # missing THEN a ELSE b
        found == first(get(results, "done", missing),
                   first(get(get(results, "operation", EmptyDict), "done", missing),
                         get(get(results, "response", EmptyDict), "complete", missing)))
    IN  IF found = missing THEN JNull ELSE found

\* search_udm: done = results.get("done") or ... or ...
search_udm_done(results) ==
    or(get(results, "done", JNull),
       or(get(get(results, "operation", EmptyDict), "done", JNull),
          get(get(results, "response", EmptyDict), "complete", JNull)))

\* the completion test without the response.complete location
get_stats_done_two(results) ==
    or(get(results, "done", JNull),
       get(get(results, "operation", EmptyDict), "done", JNull))

\* get_stats: done = results.get("done") or ... or ...
get_stats_done(results) ==
    or(get(results, "done", JNull),
       or(get(get(results, "operation", EmptyDict), "done", JNull),
          get(get(results, "response", EmptyDict), "complete", JNull)))

\* search_udm: events = (... or ...)
search_udm_events(results) ==
    or(get(get(get(results, "response", EmptyDict), "events", EmptyDict),
           "events", EmptyList),
       get(get(get(get(results, "operation", EmptyDict), "response", EmptyDict),
               "events", EmptyDict),
           "events", EmptyList))

\* get_stats: stats = (... or ...)
get_stats_stats(results) ==
    or(get(get(results, "response", EmptyDict), "stats", JNull),
       get(get(get(results, "operation", EmptyDict), "response", EmptyDict),
           "stats", JNull))

----------------------------------------------------------------------------
(* _process_stats_results *)

\* int(v)
int(v) ==
    CASE IsExc(v) -> v
      [] v.t = "int" -> v
      [] v.t = "bool" -> JInt(IF v.b THEN 1 ELSE 0)
      [] v.t = "str" ->
            IF \E n \in -99..99 : ToString(n) = v.s
            THEN JInt(CHOOSE n \in -99..99 : ToString(n) = v.s)
            ELSE Raise("ValueError")
      [] OTHER -> Raise("TypeError")

\* k in v, for the values `in` accepts
in(k, v) ==
    CASE v.t = "obj" -> JBool(k \in DOMAIN v.f)
      [] v.t = "list" -> JBool(\E i \in 1..Len(v.e) : v.e[i] = JStr(k))
      [] v.t = "str" -> JBool(v.s = k)
      [] OTHER -> Raise("TypeError")

\* for col in v: the items, or the exception
items(v) ==
    CASE IsExc(v) -> v
      [] v.t = "list" -> v
      [] OTHER -> Raise("TypeError")

\* row[col_name] = cell, on the row's mapping (the names drawn are strings or
\* unhashable values)
setitem(row, col_name, cell) ==
    IF col_name.t # "str" THEN Raise("TypeError")
    ELSE dict({<<k, row.f[k]>> : k \in DOMAIN row.f \ {col_name.s}}
              \cup {<<col_name.s, cell>>})

\* the column listing that stops after the first column
column_names_first(cols, j, names) ==
    IF cols = <<>> THEN JList(names)
    ELSE LET has == in("column", cols[1]) IN
         IF IsExc(has) THEN has
         ELSE IF has.b THEN JList(<<cols[1].f["column"]>>)
         ELSE JList(names)

\* "Extract column information": the names appended so far, then the rest
RECURSIVE column_names(_, _, _)
column_names(cols, j, names) ==
    IF j > Len(cols) THEN JList(names)
    ELSE LET has == in("column", cols[j]) IN
         IF IsExc(has) THEN has
         ELSE IF has.b
         THEN column_names(cols, j + 1, Append(names, cols[j].f["column"]))
         ELSE column_names(cols, j + 1, names)

\* the cell typing that leaves an int64Val as the string it arrives as
typed_value_unparsed(value) ==
    LET s == in("stringVal", value)
        n == in("int64Val", value)
    IN  IF IsExc(value) THEN value
        ELSE IF IsExc(s) THEN s
        ELSE IF s.b THEN getitem(value, "stringVal")
        ELSE IF n.b THEN getitem(value, "int64Val")
        ELSE JNull

\* the cell read by its tag, int64Val first, with no default
typed_value_tagged_only(value) ==
    LET n == in("int64Val", value)
    IN  IF IsExc(value) THEN value
        ELSE IF IsExc(n) THEN n
        ELSE IF n.b THEN int(getitem(value, "int64Val"))
        ELSE getitem(value, "stringVal")

\* "Handle different value types": the cell of a value object
typed_value(value) ==
    LET s == in("stringVal", value)
        n == in("int64Val", value)
    IN  IF IsExc(value) THEN value
        ELSE IF IsExc(s) THEN s
        ELSE IF s.b THEN getitem(value, "stringVal")
        ELSE IF n.b THEN int(getitem(value, "int64Val"))
        ELSE JNull

\* for col in stats["results"]: ... at row i, from column j on
RECURSIVE stats_row(_, _, _, _)
stats_row(cols, i, j, row) ==
    IF j > Len(cols) THEN row
    ELSE LET col_name == getitem(cols[j], "column")
             value == getitem(index(getitem(cols[j], "values"), i), "value")
             cell == typed_value(value)
             next == setitem(row, col_name, cell)
         IN  IF IsExc(col_name) THEN col_name
             ELSE IF IsExc(cell) THEN cell
             ELSE IF IsExc(next) THEN next
             ELSE stats_row(cols, i, j + 1, next)

\* for i in range(num_rows): ..., from row i on
RECURSIVE stats_rows(_, _, _, _)
stats_rows(cols, i, num_rows, rows) ==
    IF i >= num_rows THEN JList(rows)
    ELSE LET row == stats_row(cols, i, 1, EmptyDict) IN
         IF IsExc(row) THEN row
         ELSE stats_rows(cols, i + 1, num_rows, Append(rows, row))

\* the number of values of the shortest of the columns from j on, at most n
RECURSIVE shortest(_, _, _)
shortest(cols, j, n) ==
    IF j > Len(cols) THEN n
    ELSE LET m == len(get(cols[j], "values", EmptyList)) IN
         IF IsExc(m) THEN n
         ELSE shortest(cols, j + 1, IF m.n < n THEN m.n ELSE n)

\* the shaping that cuts the rows to the shortest column
process_stats_try_shortest(results) ==
    LET stats == get(get(results, "response", EmptyDict), "stats", EmptyDict)
        listed == items(get(stats, "results", EmptyList))
        columns == column_names(listed.e, 1, <<>>)
        found == get(stats, "results", JNull)
        num_rows == len(get(index(found, 0), "values", EmptyList))
        rows == IF truthy(found)
                THEN IF IsExc(num_rows) THEN num_rows
                     ELSE stats_rows(items(found).e, 0,
                                     shortest(items(found).e, 1, num_rows.n), <<>>)
                ELSE EmptyList
    IN  IF IsExc(stats) THEN stats
        ELSE IF ~truthy(stats)
        THEN dict({<<"rows", EmptyList>>, <<"columns", EmptyList>>})
        ELSE IF IsExc(listed) THEN listed
        ELSE IF IsExc(columns) THEN columns
        ELSE IF IsExc(rows) THEN rows
        ELSE dict({<<"columns", columns>>, <<"rows", rows>>,
                   <<"total_rows", len(rows)>>})

\* the body of the try block: the result, or the exception raised in it
process_stats_try(results) ==
    LET stats == get(get(results, "response", EmptyDict), "stats", EmptyDict)
        listed == items(get(stats, "results", EmptyList))
        columns == column_names(listed.e, 1, <<>>)
        found == get(stats, "results", JNull)
        num_rows == len(get(index(found, 0), "values", EmptyList))
        rows == IF truthy(found)
                THEN IF IsExc(num_rows) THEN num_rows
                     ELSE stats_rows(items(found).e, 0, num_rows.n, <<>>)
                ELSE EmptyList
    IN  IF IsExc(stats) THEN stats
        ELSE IF ~truthy(stats)
        THEN dict({<<"rows", EmptyList>>, <<"columns", EmptyList>>})
        ELSE IF IsExc(listed) THEN listed
        ELSE IF IsExc(columns) THEN columns
        ELSE IF IsExc(rows) THEN rows
        ELSE dict({<<"columns", columns>>, <<"rows", rows>>,
                   <<"total_rows", len(rows)>>})

\* _process_stats_results(results): the result, or the APIError
_process_stats_results(results) ==
    LET r == process_stats_try(results) IN
    IF IsExc(r)
    THEN APIError("Error processing stats results: {str(e)}", <<r>>)
    ELSE r

----------------------------------------------------------------------------
(* The backend's answers and the caller's inputs, drawn from bounded sets *)

NoResponse == [status_code |-> 0, text |-> JNull]
Http(status, text) == [status_code |-> status, text |-> text]

Op1 == JStr("operations/1")
Op2 == JStr("operations/2")

\* 200 bodies of the submit POST
SubmitBodies ==
    LET objects == {dict({<<"operation", Op1>>}),
                    dict({<<"name", Op2>>}),
                    dict({<<"operation", Op1>>, <<"name", Op2>>}),
                    dict({<<"operation", JStr("")>>}),
                    dict({<<"operation", JNull>>, <<"name", JNull>>}),
                    EmptyDict}
    IN  objects \cup {JList(<<o>>) : o \in objects}
        \cup {EmptyList, JList(<<JNull>>), JNull, RawText("<html>")}

SubmitResponses ==
    {Http(200, b) : b \in SubmitBodies}
    \cup {Http(403, RawText("denied")), Http(500, dict({<<"operation", Op1>>}))}

E1 == dict({<<"name", JStr("e1")>>})
E2 == dict({<<"name", JStr("e2")>>})

\* the cell of a column of the given kind at row i (counted from 1)
Cell(kind, i) ==
    LET text == JStr(<<"a", "b", "c", "d">>[i])
        number == JStr(ToString(3 * i))
    IN  CASE kind = "string" -> dict({<<"value", dict({<<"stringVal", text>>})>>})
          [] kind = "int64" -> dict({<<"value", dict({<<"int64Val", number>>})>>})
          [] kind = "double" -> dict({<<"value", dict({<<"doubleVal", number>>})>>})
          [] kind = "both" -> dict({<<"value", dict({<<"stringVal", text>>,
                                                      <<"int64Val", number>>})>>})
          [] kind = "bare_string" -> dict({<<"stringVal", text>>})
          [] kind = "bare_int64" -> dict({<<"int64Val", number>>})

CellKinds == {"string", "int64", "double", "both", "bare_string", "bare_int64"}
ColumnNames == {"host", "count"}

Column(name, kind, n) ==
    dict({<<"column", JStr(name)>>,
          <<"values", JList([i \in 1..n |-> Cell(kind, i)])>>})

\* the kinds of cell a column of that name holds
KindsOf(name) ==
    IF name = "host" THEN {"string", "bare_string", "both"}
    ELSE {"int64", "bare_int64", "double"}

Columns == {Column(c[1], c[2], n) :
               c \in {c \in ColumnNames \X CellKinds : c[2] \in KindsOf(c[1])},
               n \in 0..MaxRows}

RECURSIVE ColumnLists(_)
ColumnLists(n) ==
    IF n = 0 THEN {<<>>}
    ELSE {Append(l, c) : l \in ColumnLists(n - 1), c \in Columns}

\* the stats blocks _process_stats_results is applied to
StatsBlocks ==
    {dict({<<"results", JList(l)>>}) : l \in UNION {ColumnLists(n) : n \in 0..MaxCols}}

\* the stats blocks the poll responses carry
HostCount == dict({<<"results", JList(<<Column("host", "string", 1),
                                         Column("count", "int64", 1)>>)>>})
BareHostCount == dict({<<"results", JList(<<Column("host", "bare_string", 1),
                                             Column("count", "bare_int64", 1)>>)>>})

\* the stats block the poll responses carry under operation.response
OperationStats == dict({<<"results", JList(<<Column("host", "string", 2)>>)>>})

\* the values of a poll body's `response` field (Absent: no such field)
Absent == [t |-> "absent"]
object(pairs) == dict({p \in pairs : p[2] # Absent})

Flags == {Absent, JTrue, JFalse}

\* a poll body: the three flags, the payload under response (events, stats)
\* and the payload under operation.response
PollObject(done, op_done, complete, p1, p2) ==
    LET inner == object({<<"events", p2[1]>>, <<"stats", p2[2]>>})
        operation == object({<<"done", op_done>>,
                             <<"response", IF inner = EmptyDict THEN Absent ELSE inner>>})
        reply == object({<<"complete", complete>>, <<"events", p1[1]>>,
                         <<"stats", p1[2]>>})
    IN  object({<<"done", done>>,
                <<"operation", IF operation = EmptyDict THEN Absent ELSE operation>>,
                <<"response", IF reply = EmptyDict THEN Absent ELSE reply>>})

NoPayload == <<Absent, Absent>>

Payloads ==
    {NoPayload,
     <<dict({<<"events", JList(<<E1, E2>>)>>}), Absent>>,
     <<dict({<<"events", EmptyList>>}), Absent>>,
     <<Absent, HostCount>>,
     <<Absent, BareHostCount>>}

OperationPayloads ==
    {NoPayload,
     <<dict({<<"events", JList(<<E2>>)>>}), Absent>>,
     <<Absent, OperationStats>>}

\* every combination of the three flags, without payload
FlagBodies ==
    {PollObject(d, o, c, NoPayload, NoPayload) : d \in Flags, o \in Flags, c \in Flags}

\* no flag or one true flag, with every combination of the payloads
PayloadBodies ==
    {PollObject(f[1], f[2], f[3], p1, p2) :
        f \in {<<Absent, Absent, Absent>>, <<JTrue, Absent, Absent>>,
               <<Absent, JTrue, Absent>>, <<Absent, Absent, JTrue>>},
        p1 \in Payloads, p2 \in OperationPayloads}

\* bodies whose fields are not the objects the client reads them as
MalformedBodies ==
    {dict({<<"operation", Op2>>}),
     dict({<<"done", JTrue>>, <<"operation", Op2>>}),
     dict({<<"response", JNull>>}),
     dict({<<"done", JTrue>>, <<"response", JNull>>}),
     dict({<<"done", JTrue>>, <<"response", dict({<<"events", dict({<<"events", JNull>>})>>})>>}),
     dict({<<"done", JTrue>>, <<"response", dict({<<"stats", JStr("none")>>})>>}),
     EmptyList, JList(<<JNull>>), JNull, RawText("<html>")}

\* completed bodies whose stats columns differ in their number of values:
\* the first column the shorter, then the first column the longer
UnevenStatsBodies ==
    {dict({<<"done", JTrue>>,
           <<"response", dict({<<"stats", dict({<<"results", JList(l)>>})>>})>>}) :
        l \in {<<Column("host", "string", 1), Column("count", "int64", 2)>>,
               <<Column("host", "string", 2), Column("count", "int64", 1)>>}}

\* 200 bodies of the poll GET
PollBodies ==
    FlagBodies \cup PayloadBodies \cup MalformedBodies \cup UnevenStatsBodies
    \cup {JList(<<o>>) : o \in FlagBodies}
    \cup {JList(<<PollObject(JTrue, Absent, Absent, p1, p2)>>) :
             p1 \in Payloads, p2 \in OperationPayloads}
    \cup {JList(<<dict({<<"done", JFalse>>}), dict({<<"done", JTrue>>})>>),
          JList(<<dict({<<"done", JTrue>>}), dict({<<"done", JFalse>>})>>)}

PollResponses ==
    {Http(200, b) : b \in PollBodies}
    \cup {Http(403, RawText("denied")), Http(500, dict({<<"done", JTrue>>}))}

----------------------------------------------------------------------------
(* The call, step by step *)

Terminal == {"returned", "raised"}

\* the longest trace a call can leave: one POST, then a GET and a sleep per attempt
MaxTrace == 2 * (MaxAttempts + 1) + 1

\* ChronicleClient.__init__
Client(customer_id, project_id, region) ==
    [customer_id |-> customer_id, project_id |-> project_id, region |-> region,
     instance_id |-> <<"projects/", project_id, "/locations/", region,
                       "/instances/", customer_id>>,
     base_url |-> <<"https://", region, "-chronicle.googleapis.com/v1alpha">>]

\* the check of the session property that always finds no session
session_is_none_always(s) == TRUE

\* if self._session is None
session_is_none(s) == s = JNull

\* google_auth_requests.AuthorizedSession(self.auth.credentials): a new
\* object, told from the others by its rank among the sessions constructed
AuthorizedSession(credentials, n) ==
    [t |-> "session", credentials |-> credentials, id |-> n]

\* self.auth.credentials, an opaque value
credentials == "credentials"

\* self.session, read by the one thread running: created on first access
session_property ==
    IF session_is_none(_session)
    THEN /\ _session' = AuthorizedSession(credentials, created + 1)
         /\ created' = created + 1
    ELSE UNCHANGED <<_session, created>>

\* the client constructed and a call about to start
InitCall ==
    /\ self = Client("customer", "project", "us")
    /\ method \in {"search_udm", "get_stats", "_process_stats_results"}
    /\ max_attempts \in -1..MaxAttempts
    /\ (method = "_process_stats_results" => max_attempts = MaxAttempts)
    /\ query = "metadata.event_type = \"NETWORK_CONNECTION\""
    /\ start_time = datetime("2024-01-01", "00:00:00", 0)
    /\ end_time = datetime("2024-01-02", "12:30:00", 250000)
    /\ max_events = 10000
    /\ max_values = (IF method = "get_stats" THEN 60 ELSE 0)
    /\ case_insensitive \in BOOLEAN
    /\ (method = "_process_stats_results" => case_insensitive)
    /\ payload = JNull
    /\ pc = "call"
    /\ response = NoResponse
    /\ operation_id = JNull
    /\ results_url = JNull
    /\ attempt = 0
    /\ results_response = NoResponse
    /\ outcome = JNull
    /\ trace = <<>>
    /\ urls = {}
    /\ all_pending = TRUE

\* one call on the client
Init ==
    /\ InitCall
    /\ calls = <<>>
    /\ session = {}
    /\ _session = JNull
    /\ created = 0
    /\ access = <<>>
    /\ overlapped = FALSE
    /\ kwargs = <<>>

\* the loop test taken one attempt too far
search_udm_while_inclusive(a, n) == a <= n
\* a loop test that never fails
get_stats_while_forever(a, n) == TRUE

\* while attempt < max_attempts
search_udm_while(a, n) == a < n
get_stats_while(a, n) == a < n

\* search_udm: raise APIError(f"Error fetching results: {results_response.text}")
search_udm_fetch_error(r) ==
    Throw(APIError("Error fetching results: {results_response.text}", <<r.text>>))

\* a failed poll taken as one more pending attempt
get_stats_fetch_retried(r) == Continue

\* get_stats: raise APIError(f"Error fetching results: {results_response.text}")
get_stats_fetch_error(r) ==
    Throw(APIError("Error fetching results: {results_response.text}", <<r.text>>))

\* the events cut to the first one before they are returned
search_udm_completed_first_only(results) ==
    LET events == search_udm_events(results)
        kept == IF events.t = "list" /\ events.e # <<>>
                THEN JList(<<events.e[1]>>) ELSE events
    IN  IF IsExc(events) THEN Throw(events)
        ELSE IF IsExc(len(events)) THEN Throw(len(events))
        ELSE Return(dict({<<"events", kept>>, <<"total_events", len(kept)>>}))

\* search_udm, if done: the events returned with their count
search_udm_completed(results) ==
    LET events == search_udm_events(results) IN
    IF IsExc(events) THEN Throw(events)
    ELSE IF IsExc(len(events)) THEN Throw(len(events))
    ELSE Return(dict({<<"events", events>>, <<"total_events", len(events)>>}))

\* get_stats, if done: the stats shaped, or "No stats found"
get_stats_completed(results) ==
    LET stats == get_stats_stats(results)
        shaped == _process_stats_results(
                      dict({<<"response", dict({<<"stats", stats>>})>>}))
    IN  IF IsExc(stats) THEN Throw(stats)
        ELSE IF truthy(stats)
        THEN IF IsExc(shaped) THEN Throw(shaped) ELSE Return(shaped)
        ELSE Throw(APIError("No stats found in completed response", <<>>))

\* search_udm, one pass of the loop body on the poll response r
search_udm_poll(r) ==
    IF r.status_code # 200 THEN search_udm_fetch_error(r)
    ELSE LET results == first_if_list(json(r))
             done == search_udm_done(results)
         IN  IF IsExc(results) THEN Throw(results)
             ELSE IF IsExc(done) THEN Throw(done)
             ELSE IF truthy(done) THEN search_udm_completed(results)
             ELSE Continue

\* get_stats, one pass of the loop body on the poll response r
get_stats_poll(r) ==
    IF r.status_code # 200 THEN get_stats_fetch_error(r)
    ELSE LET results == first_if_list(json(r))
             done == get_stats_done(results)
         IN  IF IsExc(results) THEN Throw(results)
             ELSE IF IsExc(done) THEN Throw(done)
             ELSE IF truthy(done) THEN get_stats_completed(results)
             ELSE Continue

\* a 200 poll body that normalizes to an object readable at the three flag
\* locations, none of which holds a true value
NoFlagSet(r) ==
    /\ r.status_code = 200
    /\ LET b == IF r.text.t = "list" /\ r.text.e # <<>> THEN r.text.e[1] ELSE r.text
           sub(k) == IF k \in DOMAIN b.f THEN b.f[k] ELSE EmptyDict
           unset(o, k) == k \notin DOMAIN o.f \/ ~truthy(o.f[k])
       IN  /\ b.t = "obj"
           /\ unset(b, "done")
           /\ sub("operation").t = "obj" /\ unset(sub("operation"), "done")
           /\ sub("response").t = "obj" /\ unset(sub("response"), "complete")

\* response = self.session.post(url, json=payload) up to the loop's first test
Post(r, submitted) ==
    /\ pc = "call"
    /\ response' = r
    /\ trace' = Append(trace, "POST")
    /\ IF IsExc(submitted)
       THEN /\ pc' = "raised"
            /\ outcome' = submitted
            /\ UNCHANGED <<operation_id, results_url>>
       ELSE /\ pc' = "loop"
            /\ operation_id' = submitted
            /\ results_url' = stream_search_url(self.base_url, submitted)
            /\ outcome' = outcome
    /\ attempt' = 0
    /\ session_property
    /\ UNCHANGED <<self, kwargs, access, overlapped, threads, method, max_attempts, arguments, results_response, urls,
                   all_pending>>

\* the poll responses that leave every poll so far a 200 with no flag set
pending_polls == {r \in PollResponses : NoFlagSet(r)}

\* the poll that moves on to the operation a poll response names
GetFollowingOperation(r, step) ==
    LET named == IF r.text.t = "obj" /\ "operation" \in DOMAIN r.text.f
                 THEN r.text.f["operation"] ELSE operation_id
    IN
    /\ pc = "loop"
    /\ Len(trace) < MaxTrace
    /\ results_response' = r
    /\ trace' = Append(trace, "GET")
    /\ urls' = urls \cup {results_url}
    /\ all_pending' = (all_pending /\ r \in pending_polls)
    /\ operation_id' = named
    /\ results_url' = stream_search_url(self.base_url, named)
    /\ CASE step.k = "raise" ->
              pc' = "raised" /\ outcome' = step.v /\ attempt' = attempt
         [] step.k = "return" ->
              pc' = "returned" /\ outcome' = step.v /\ attempt' = attempt
         [] step.k = "continue" ->
              pc' = "sleep" /\ outcome' = outcome /\ attempt' = attempt + 1
    /\ session_property
    /\ UNCHANGED <<self, kwargs, access, overlapped, threads, method, max_attempts, arguments, payload, response>>

\* the poll that gives the last allowed attempt up for timed out even when
\* its response completes
GetCeilingFirst(r, step) ==
    /\ pc = "loop"
    /\ Len(trace) < MaxTrace
    /\ results_response' = r
    /\ trace' = Append(trace, "GET")
    /\ urls' = urls \cup {results_url}
    /\ all_pending' = (all_pending /\ r \in pending_polls)
    /\ CASE step.k = "raise" ->
              pc' = "raised" /\ outcome' = step.v /\ attempt' = attempt
         [] step.k = "return" /\ attempt + 1 < max_attempts ->
              pc' = "returned" /\ outcome' = step.v /\ attempt' = attempt
         [] step.k = "return" /\ attempt + 1 >= max_attempts ->
              /\ pc' = "raised" /\ attempt' = attempt
              /\ outcome' = APIError("Search timed out after {max_attempts} attempts",
                                     <<JInt(max_attempts)>>)
         [] step.k = "continue" ->
              pc' = "sleep" /\ outcome' = outcome /\ attempt' = attempt + 1
    /\ session_property
    /\ UNCHANGED <<self, kwargs, access, overlapped, threads, method, max_attempts, arguments, payload,
                   response, operation_id, results_url>>

\* results_response = self.session.get(results_url) and the rest of the loop
\* body, up to time.sleep
Get(r, step) ==
    /\ pc = "loop"
    /\ Len(trace) < MaxTrace
    /\ results_response' = r
    /\ trace' = Append(trace, "GET")
    /\ urls' = urls \cup {results_url}
    /\ all_pending' = (all_pending /\ r \in pending_polls)
    /\ CASE step.k = "raise" ->
              pc' = "raised" /\ outcome' = step.v /\ attempt' = attempt
         [] step.k = "return" ->
              pc' = "returned" /\ outcome' = step.v /\ attempt' = attempt
         [] step.k = "continue" ->
              pc' = "sleep" /\ outcome' = outcome /\ attempt' = attempt + 1
    /\ session_property
    /\ UNCHANGED <<self, kwargs, access, overlapped, threads, method, max_attempts, arguments, payload, response,
                   operation_id, results_url>>

\* a sleep taken twice over
SleepTwice ==
    /\ pc = "sleep"
    /\ trace' = trace \o <<"sleep", "sleep">>
    /\ pc' = "loop"
    /\ UNCHANGED <<self, kwargs, property, threads, method, max_attempts, arguments, payload,
                   response, operation_id, results_url, attempt, results_response,
                   outcome, urls, all_pending>>

\* a sleep that uses the caller's max_attempts as the countdown of the loop
SleepCountingDown ==
    /\ pc = "sleep"
    /\ trace' = Append(trace, "sleep")
    /\ pc' = "loop"
    /\ max_attempts' = max_attempts - 1
    /\ UNCHANGED <<self, kwargs, property, threads, method, arguments, payload, response,
                   operation_id, results_url, attempt, results_response, outcome,
                   urls, all_pending>>

\* time.sleep(1)
Sleep ==
    /\ pc = "sleep"
    /\ trace' = Append(trace, "sleep")
    /\ pc' = "loop"
    /\ UNCHANGED <<self, kwargs, property, threads, method, max_attempts, arguments, payload, response,
                   operation_id, results_url,
                   attempt, results_response, outcome, urls, all_pending>>

\* raise APIError(f"Search timed out after {max_attempts} attempts")
TimedOut ==
    /\ pc = "loop"
    /\ pc' = "raised"
    /\ outcome' = APIError("Search timed out after {max_attempts} attempts",
                           <<JInt(max_attempts)>>)
    /\ UNCHANGED <<self, kwargs, property, threads, method, max_attempts, arguments, payload, response,
                   operation_id, results_url,
                   attempt, results_response, trace, urls, all_pending>>

\* the backend's answers with what the methods make of them, computed once
search_udm_submits == [r \in SubmitResponses |-> search_udm_submitted(r)]
get_stats_submits == [r \in SubmitResponses |-> get_stats_submitted(r)]
search_udm_polls == [r \in PollResponses |-> search_udm_poll(r)]
get_stats_polls == [r \in PollResponses |-> get_stats_poll(r)]

search_udm_post ==
    /\ method = "search_udm"
    /\ pc = "call"
    /\ payload' = search_udm_payload(query, start_time, end_time, max_events,
                                     case_insensitive)
    /\ \E r \in SubmitResponses : Post(r, search_udm_submits[r])

search_udm_get ==
    /\ method = "search_udm"
    /\ pc = "loop"
    /\ search_udm_while(attempt, max_attempts)
    /\ \E r \in PollResponses : Get(r, search_udm_polls[r])

search_udm_sleep == method = "search_udm" /\ Sleep

search_udm_timeout ==
    /\ method = "search_udm"
    /\ ~search_udm_while(attempt, max_attempts)
    /\ TimedOut

get_stats_post ==
    /\ method = "get_stats"
    /\ pc = "call"
    /\ payload' = get_stats_payload(query, start_time, end_time, max_values,
                                    max_events, case_insensitive)
    /\ \E r \in SubmitResponses : Post(r, get_stats_submits[r])

get_stats_get ==
    /\ method = "get_stats"
    /\ pc = "loop"
    /\ get_stats_while(attempt, max_attempts)
    /\ \E r \in PollResponses : Get(r, get_stats_polls[r])

get_stats_sleep == method = "get_stats" /\ Sleep

get_stats_timeout ==
    /\ method = "get_stats"
    /\ ~get_stats_while(attempt, max_attempts)
    /\ TimedOut

\* _process_stats_results applied to a stats block, as get_stats passes it
process_stats ==
    /\ method = "_process_stats_results"
    /\ pc = "call"
    /\ \E stats \in StatsBlocks :
          LET results == dict({<<"response", dict({<<"stats", stats>>})>>})
              shaped == _process_stats_results(results)
          IN  /\ results_response' = Http(200, results)
              /\ outcome' = shaped
              /\ pc' = IF IsExc(shaped) THEN "raised" ELSE "returned"
    /\ UNCHANGED <<self, kwargs, property, threads, method, max_attempts, arguments, payload, response,
                   operation_id, results_url,
                   attempt, trace, urls, all_pending>>

Next ==
    \/ search_udm_post
    \/ search_udm_get
    \/ search_udm_sleep
    \/ search_udm_timeout
    \/ get_stats_post
    \/ get_stats_get
    \/ get_stats_sleep
    \/ get_stats_timeout
    \/ process_stats

Spec == Init /\ [][Next]_vars

\* a call of search_udm or get_stats
InitSearch == Init /\ method \in {"search_udm", "get_stats"}

NextSearch ==
    \/ search_udm_post
    \/ search_udm_get
    \/ search_udm_sleep
    \/ search_udm_timeout
    \/ get_stats_post
    \/ get_stats_get
    \/ get_stats_sleep
    \/ get_stats_timeout

\* the calling thread runs the call to its end: every request is answered and
\* every sleep returns
FairSpec == InitSearch /\ [][NextSearch]_vars /\ WF_vars(NextSearch)

----------------------------------------------------------------------------
(* Two calls running on one client, each in its own thread *)

Calls == {1, 2}
MaxCallAttempts == 2

\* f"{self.base_url}/{self.instance_id}/legacy:legacyFetchUdmSearchView"
search_view_url(base_url, instance_id) ==
    [base_url |-> base_url, instance_id |-> instance_id,
     verb |-> "/legacy:legacyFetchUdmSearchView"]

\* the backend's answers to a submit POST
CallSubmits ==
    {Http(200, dict({<<"operation", Op1>>})), Http(200, dict({<<"name", Op2>>})),
     Http(403, RawText("denied"))}

\* the completed body the backend holds for the operation id: its events
\* and its stats name the operation
CompletedBody(id) ==
    LET host == dict({<<"column", JStr("host")>>,
                      <<"values", JList(<<dict({<<"value",
                                     dict({<<"stringVal", id>>})>>})>>)>>})
    IN  dict({<<"done", JTrue>>,
              <<"response",
                dict({<<"events", dict({<<"events",
                                         JList(<<dict({<<"name", id>>})>>)>>})>>,
                      <<"stats", dict({<<"results", JList(<<host>>)>>})>>})>>})

\* the backend's answers to a poll GET of the operation's URL
CallPolls(id) ==
    {Http(200, EmptyDict), Http(200, CompletedBody(id)),
     Http(500, RawText("backend error"))}

\* the locals of a call that has not started
Locals(m, n) ==
    [method |-> m, max_attempts |-> n, pc |-> "call", response |-> NoResponse,
     operation_id |-> JNull, results_url |-> JNull, attempt |-> 0,
     results_response |-> NoResponse, outcome |-> JNull,
     gets |-> 0, pending |-> 0, urls |-> {}]

\* the request a call has in the session
Request(c, verb, url) == [call |-> c, verb |-> verb, url |-> url]
InFlight(c) == CHOOSE q \in session : q.call = c

\* the client with its session created, and two calls about to start
InitCalls ==
    /\ InitCall
    /\ method = "search_udm" /\ max_attempts = MaxAttempts /\ case_insensitive
    /\ calls \in [Calls -> {Locals(m, n) : m \in {"search_udm", "get_stats"},
                                           n \in 1..MaxCallAttempts}]
    /\ session = {}
    /\ _session = AuthorizedSession(credentials, 1)
    /\ created = 1
    /\ access = <<>>
    /\ overlapped = FALSE
    /\ kwargs = <<>>

\* the methods' parts, by the method the call runs
submitted(m, r) ==
    IF m = "search_udm" THEN search_udm_submitted(r) ELSE get_stats_submitted(r)
while(m, a, n) ==
    IF m = "search_udm" THEN search_udm_while(a, n) ELSE get_stats_while(a, n)
poll(m, r) ==
    IF m = "search_udm" THEN search_udm_poll(r) ELSE get_stats_poll(r)

\* the backend's answers with what the methods make of them, computed once
Methods == {"search_udm", "get_stats"}
call_submits == [m \in Methods |-> [r \in CallSubmits |-> submitted(m, r)]]
call_answers == [id \in {Op1, Op2} |-> CallPolls(id)]
call_polls ==
    [m \in Methods |->
        [r \in UNION {call_answers[id] : id \in {Op1, Op2}} |-> poll(m, r)]]

\* call c hands its submit POST to the session
call_post(c) ==
    /\ calls[c].pc = "call"
    /\ session' = session \cup
          {Request(c, "POST", search_view_url(self.base_url, self.instance_id))}
    /\ calls' = [calls EXCEPT ![c].pc = "post"]
    /\ UNCHANGED <<self, kwargs, property, single>>

\* a submit that keeps results_url on the client, for every call to read
call_submitted_on_client(c) ==
    /\ calls[c].pc = "post"
    /\ session' = session \ {InFlight(c)}
    /\ \E r \in CallSubmits :
          LET id == call_submits[calls[c].method][r] IN
          IF IsExc(id)
          THEN calls' = [calls EXCEPT ![c].response = r, ![c].pc = "raised",
                                      ![c].outcome = id]
          ELSE calls' = [d \in Calls |->
                  IF d = c
                  THEN [calls[d] EXCEPT !.response = r, !.pc = "loop",
                          !.operation_id = id, !.attempt = 0,
                          !.results_url = stream_search_url(self.base_url, id)]
                  ELSE [calls[d] EXCEPT
                          !.results_url = stream_search_url(self.base_url, id)]]
    /\ UNCHANGED <<self, kwargs, property, single>>

\* the session hands call c the response to its POST; up to the loop's
\* first test
call_submitted(c) ==
    /\ calls[c].pc = "post"
    /\ session' = session \ {InFlight(c)}
    /\ \E r \in CallSubmits :
          LET id == call_submits[calls[c].method][r] IN
          IF IsExc(id)
          THEN calls' = [calls EXCEPT ![c].response = r, ![c].pc = "raised",
                                      ![c].outcome = id]
          ELSE calls' = [calls EXCEPT ![c].response = r, ![c].pc = "loop",
                          ![c].operation_id = id, ![c].attempt = 0,
                          ![c].results_url = stream_search_url(self.base_url, id)]
    /\ UNCHANGED <<self, kwargs, property, single>>

\* call c passes the loop test and hands its poll GET to the session
call_get(c) ==
    /\ calls[c].pc = "loop"
    /\ while(calls[c].method, calls[c].attempt, calls[c].max_attempts)
    /\ session' = session \cup {Request(c, "GET", calls[c].results_url)}
    /\ calls' = [calls EXCEPT ![c].pc = "get", ![c].gets = @ + 1,
                              ![c].urls = @ \cup {calls[c].results_url}]
    /\ UNCHANGED <<self, kwargs, property, single>>

\* the rest of the loop body in call c, on the poll response r
LoopBody(c, r, step) ==
    CASE step.k = "raise" ->
           calls' = [calls EXCEPT ![c].results_response = r,
                        ![c].pc = "raised", ![c].outcome = step.v]
      [] step.k = "return" ->
           calls' = [calls EXCEPT ![c].results_response = r,
                        ![c].pc = "returned", ![c].outcome = step.v]
      [] step.k = "continue" ->
           calls' = [calls EXCEPT ![c].results_response = r,
                        ![c].pc = "sleep", ![c].attempt = @ + 1,
                        ![c].pending = @ + 1]

\* the session hands call c the response to its GET; the rest of the loop
\* body, up to time.sleep
call_polled(c) ==
    /\ calls[c].pc = "get"
    /\ session' = session \ {InFlight(c)}
    /\ \E r \in call_answers[InFlight(c).url.operation_id] :
          LoopBody(c, r, call_polls[calls[c].method][r])
    /\ UNCHANGED <<self, kwargs, property, single>>

\* time.sleep(1) returns in call c
call_sleep(c) ==
    /\ calls[c].pc = "sleep"
    /\ calls' = [calls EXCEPT ![c].pc = "loop"]
    /\ UNCHANGED <<self, kwargs, property, single, session>>

\* call c fails the loop test
call_timeout(c) ==
    /\ calls[c].pc = "loop"
    /\ ~while(calls[c].method, calls[c].attempt, calls[c].max_attempts)
    /\ calls' = [calls EXCEPT ![c].pc = "raised",
                    ![c].outcome = APIError("Search timed out after {max_attempts} attempts",
                                            <<JInt(calls[c].max_attempts)>>)]
    /\ UNCHANGED <<self, kwargs, property, single, session>>

NextCalls ==
    \E c \in Calls :
        \/ call_post(c)
        \/ call_submitted(c)
        \/ call_get(c)
        \/ call_polled(c)
        \/ call_sleep(c)
        \/ call_timeout(c)

\* the threads run in any order, a step of one call at a time
SpecCalls == InitCalls /\ [][NextCalls]_vars

----------------------------------------------------------------------------
(* Threads reading the session property of one client *)

Threads == {1, 2}
MaxAccesses == 2

\* the API calls that send a request through self.session
ApiCalls == {"search_udm", "get_stats", "validate_query", "summarize_entity"}

\* a thread between two API calls, having made `made` requests and obtained
\* the sessions `got`, in order
Idle(made, got) == [pc |-> "idle", call |-> "none", made |-> made, got |-> got]

\* the client constructed, no session yet, no thread in an API call
InitSession ==
    /\ InitCall
    /\ method = "search_udm" /\ max_attempts = MaxAttempts /\ case_insensitive
    /\ calls = <<>>
    /\ session = {}
    /\ _session = JNull
    /\ created = 0
    /\ access = [t \in Threads |-> Idle(0, <<>>)]
    /\ overlapped = FALSE
    /\ kwargs = <<>>

\* thread t, in an API call, reads self.session: if self._session is None
session_check(t) ==
    /\ access[t].pc = "idle"
    /\ access[t].made < MaxAccesses
    /\ \E call \in ApiCalls :
          access' = [access EXCEPT
                        ![t].call = call,
                        ![t].pc = IF session_is_none(_session)
                                  THEN "create" ELSE "return"]
    /\ overlapped' = (overlapped \/ \E u \in Threads \ {t} : access[u].pc # "idle")
    /\ UNCHANGED <<self, kwargs, single, threads, _session, created>>

\* self._session = google_auth_requests.AuthorizedSession(self.auth.credentials)
session_create(t) ==
    /\ access[t].pc = "create"
    /\ _session' = AuthorizedSession(credentials, created + 1)
    /\ created' = created + 1
    /\ access' = [access EXCEPT ![t].pc = "return"]
    /\ UNCHANGED <<self, kwargs, single, threads, overlapped>>

\* return self._session
session_return(t) ==
    /\ access[t].pc = "return"
    /\ access' = [access EXCEPT ![t].pc = "request",
                                ![t].got = Append(@, _session)]
    /\ UNCHANGED <<self, kwargs, single, threads, _session, created, overlapped>>

\* a request that leaves the client without its session
session_request_clearing(t) ==
    /\ access[t].pc = "request"
    /\ access' = [access EXCEPT ![t] = Idle(@.made + 1, @.got)]
    /\ _session' = JNull
    /\ UNCHANGED <<self, kwargs, single, threads, created, overlapped>>

\* self.session.post(...) or self.session.get(...): the call's request is
\* sent through the session obtained, and the call ends
session_request(t) ==
    /\ access[t].pc = "request"
    /\ access' = [access EXCEPT ![t] = Idle(@.made + 1, @.got)]
    /\ UNCHANGED <<self, kwargs, single, threads, _session, created, overlapped>>

NextSession ==
    \E t \in Threads :
        \/ session_check(t)
        \/ session_create(t)
        \/ session_return(t)
        \/ session_request(t)

SpecSession == InitSession /\ [][NextSession]_vars

----------------------------------------------------------------------------
(* summarize_entity: the request parameters *)

\* character classes of the patterns; a value is a sequence of characters
Digits == {"0", "1", "2", "3", "4", "5", "6", "7", "8", "9"}
HexLetters == {"a", "b", "c", "d", "e", "f", "A", "B", "C", "D", "E", "F"}
Letters ==
    {"a", "b", "c", "d", "e", "f", "g", "h", "i", "j", "k", "l", "m", "n", "o", "p", "q", "r", "s", "t", "u", "v", "w", "x", "y", "z"}
    \cup {"A", "B", "C", "D", "E", "F", "G", "H", "I", "J", "K", "L", "M", "N", "O", "P", "Q", "R", "S", "T", "U", "V", "W", "X", "Y", "Z"}
HexDigits == Digits \cup HexLetters
Alnum == Letters \cup Digits

\* every character of s is in the class
all(s, class) == \A i \in 1..Len(s) : s[i] \in class

\* s.split(sep)
RECURSIVE split(_, _, _, _)
split(s, sep, i, part) ==
    IF i > Len(s) THEN <<part>>
    ELSE IF s[i] = sep THEN <<part>> \o split(s, sep, i + 1, <<>>)
    ELSE split(s, sep, i + 1, Append(part, s[i]))

\* 25[0-5]|2[0-4][0-9]|[01]?[0-9][0-9]?
octet(p) ==
    /\ Len(p) \in 1..3
    /\ all(p, Digits)
    /\ Len(p) = 3 =>
          \/ p[1] \in {"0", "1"}
          \/ p[1] = "2" /\ p[2] \in {"0", "1", "2", "3", "4"}
          \/ p[1] = "2" /\ p[2] = "5" /\ p[3] \in {"0", "1", "2", "3", "4", "5"}

\* ipv4_pattern
ipv4_pattern(v) ==
    LET parts == split(v, ".", 1, <<>>) IN
    Len(parts) = 4 /\ \A i \in 1..4 : octet(parts[i])

\* md5_pattern, sha1_pattern, sha256_pattern: ^[a-fA-F0-9]{n}$
hex_pattern(v, n) == Len(v) = n /\ all(v, HexDigits)

\* domain_pattern
domain_pattern(v) ==
    LET parts == split(v, ".", 1, <<>>)
        first == parts[1]
    IN  /\ Len(parts) >= 2
        /\ Len(first) \in 1..63
        /\ first[1] \in Alnum /\ first[Len(first)] \in Alnum
        /\ all(first, Alnum \cup {"-"})
        /\ \A i \in 2..Len(parts) : Len(parts[i]) >= 2 /\ all(parts[i], Letters)

\* email_pattern
email_pattern(v) ==
    \E k \in 2..Len(v) :
        /\ v[k] = "@"
        /\ all(SubSeq(v, 1, k - 1), Alnum \cup {".", "_", "%", "+", "-"})
        /\ \E j \in (k + 2)..Len(v) :
              /\ v[j] = "."
              /\ all(SubSeq(v, k + 1, j - 1), Alnum \cup {".", "-"})
              /\ Len(v) - j >= 2
              /\ all(SubSeq(v, j + 1, Len(v)), Letters)

\* mac_pattern
mac_pattern(v) ==
    /\ Len(v) = 17
    /\ \A i \in 1..17 :
          IF i % 3 = 0 THEN v[i] \in {":", "-"} ELSE v[i] \in HexDigits

\* hostname_pattern
hostname_pattern(v) ==
    /\ Len(v) >= 1
    /\ v[1] \in Alnum /\ v[Len(v)] \in Alnum
    /\ all(v, Alnum \cup {"-"})

\* _detect_value_type(value): <<field_path, value_type>>
_detect_value_type(value) ==
    IF ipv4_pattern(value) THEN <<JStr("principal.ip"), JNull>>
    ELSE IF hex_pattern(value, 32) THEN <<JStr("target.file.md5"), JNull>>
    ELSE IF hex_pattern(value, 40) THEN <<JStr("target.file.sha1"), JNull>>
    ELSE IF hex_pattern(value, 64) THEN <<JStr("target.file.sha256"), JNull>>
    ELSE IF domain_pattern(value) THEN <<JNull, JStr("DOMAIN_NAME")>>
    ELSE IF email_pattern(value) THEN <<JNull, JStr("EMAIL")>>
    ELSE IF mac_pattern(value) THEN <<JNull, JStr("MAC")>>
    ELSE IF hostname_pattern(value) THEN <<JNull, JStr("HOSTNAME")>>
    ELSE <<JNull, JNull>>

\* the digits of n, zero-padded to the given width
padded(n, width) == [i \in 1..width |-> ToString((n \div (10 ^ (width - i))) % 10)]

\* t.strftime("%Y-%m-%dT%H:%M:%S.%fZ")
strftime_f(t) == JStr(<<t.date, "T", t.time, ".">> \o padded(t.microsecond, 6) \o <<"Z">>)

\* f"{self.base_url}/{self.instance_id}:summarizeEntity"
summarize_entity_url(base_url, instance_id) ==
    [base_url |-> base_url, instance_id |-> instance_id, verb |-> ":summarizeEntity"]

\* params = {...} and `if page_token`
summarize_entity_base(start, end, a) ==
    {<<"timeRange.startTime", strftime_f(start)>>,
     <<"timeRange.endTime", strftime_f(end)>>,
     <<"returnAlerts", JBool(a.return_alerts)>>,
     <<"returnPrevalence", JBool(a.return_prevalence)>>,
     <<"includeAllUdmEventTypesForFirstLastSeen", JBool(a.include_all_udm_types)>>,
     <<"pageSize", JInt(a.page_size)>>}
    \cup (IF truthy(a.page_token) THEN {<<"pageToken", a.page_token>>} ELSE {})

\* the identification that tries the value type before the field path
entity_identification_type_first(a) ==
    LET detected == _detect_value_type(a.value.s)
        final_field_path == or(a.field_path, detected[1])
        final_value_type == or(a.value_type, detected[2])
    IN  IF truthy(a.entity_id) THEN Return({<<"entityId", a.entity_id>>})
        ELSE IF truthy(final_value_type)
        THEN Return({<<"fieldAndValue.value", a.value>>,
                     <<"fieldAndValue.valueType", final_value_type>>})
        ELSE IF truthy(final_field_path)
        THEN Return({<<"fieldAndValue.fieldPath", final_field_path>>,
                     <<"fieldAndValue.value", a.value>>})
        ELSE Throw(Raise("ValueError"))

\* `if entity_id: ... else: ...` up to the ValueError: the pairs added to
\* params returned, or the exception thrown
entity_identification(a) ==
    LET detected == _detect_value_type(a.value.s)
        final_field_path == or(a.field_path, detected[1])
        final_value_type == or(a.value_type, detected[2])
    IN  IF truthy(a.entity_id) THEN Return({<<"entityId", a.entity_id>>})
        ELSE IF truthy(final_field_path)
        THEN Return({<<"fieldAndValue.fieldPath", final_field_path>>,
                     <<"fieldAndValue.value", a.value>>})
        ELSE IF truthy(final_value_type)
        THEN Return({<<"fieldAndValue.value", a.value>>,
                     <<"fieldAndValue.valueType", final_value_type>>})
        ELSE Throw(Raise("ValueError"))

\* summarize_entity up to the request: params, or the ValueError
summarize_entity_params(start, end, a) ==
    LET identification == entity_identification(a) IN
    IF identification.k = "raise" THEN identification.v
    ELSE dict(summarize_entity_base(start, end, a)
              \cup identification.v
              \cup (IF ~truthy(a.entity_id) /\ truthy(a.entity_namespace)
                    THEN {<<"fieldAndValue.entityNamespace", a.entity_namespace>>}
                    ELSE {}))

\* an EntitySummary
EntitySummary(entities, alert_counts, timeline, widget_metadata, has_more_alerts, next_page_token) ==
    [t |-> "EntitySummary", entities |-> entities, alert_counts |-> alert_counts,
     timeline |-> timeline, widget_metadata |-> widget_metadata,
     has_more_alerts |-> has_more_alerts, next_page_token |-> next_page_token]

\* the try block after the request, on bodies that list no entity, alert
\* count, timeline or widget
summarize_entity_parsed(r) ==
    LET data == json(r)
        entities == get(data, "entities", EmptyList)
    IN  IF IsExc(entities)
        THEN APIError("Error parsing entity summary response: {str(e)}", <<entities>>)
        ELSE EntitySummary(<<>>, <<>>, JNull, JNull,
                           get(data, "hasMoreAlerts", JFalse),
                           get(data, "nextPageToken", JNull))

\* the values summarize_entity is called with
EntityValues ==
    {<<"1", "0", ".", "0", ".", "0", ".", "1">>,
     <<"2", "5", "6", ".", "1", ".", "1", ".", "1">>,
     <<"d", "4", "1", "d", "8", "c", "d", "9", "8", "f", "0", "0", "b", "2", "0", "4", "e", "9", "8", "0", "0", "9", "9", "8", "e", "c", "f", "8", "4", "2", "7", "e">>,
     <<"d", "a", "3", "9", "a", "3", "e", "e", "5", "e", "6", "b", "4", "b", "0", "d", "3", "2", "5", "5", "b", "f", "e", "f", "9", "5", "6", "0", "1", "8", "9", "0", "a", "f", "d", "8", "0", "7", "0", "9">>,
     <<"e", "x", "a", "m", "p", "l", "e", ".", "c", "o", "m">>,
     <<"a", "@", "b", ".", "c", "o">>,
     <<"a", "a", ":", "b", "b", ":", "c", "c", ":", "d", "d", ":", "e", "e", ":", "f", "f">>,
     <<"h", "o", "s", "t", "-", "1">>,
     <<"b", "a", "d", " ", "v", "a", "l", "u", "e", "!">>,
     <<>>}

Kwargs ==
    [value : {JStr(v) : v \in EntityValues},
     field_path : {JNull, JStr("principal.hostname")},
     value_type : {JNull, JStr("USERNAME")},
     entity_id : {JNull, JStr(""), JStr("entity-1")},
     entity_namespace : {JNull, JStr("ns")},
     return_alerts : {TRUE},
     return_prevalence : {FALSE},
     include_all_udm_types : {TRUE},
     page_size : {1000},
     page_token : {JNull, JStr("next")}]

\* the backend's answers to the summary request
SummaryResponses ==
    {Http(200, EmptyDict),
     Http(200, dict({<<"hasMoreAlerts", JTrue>>, <<"nextPageToken", JStr("next")>>})),
     Http(200, RawText("<html>")),
     Http(403, RawText("denied"))}

\* the client constructed and a call of summarize_entity about to start
InitSummary ==
    /\ self = Client("customer", "project", "us")
    /\ method = "summarize_entity"
    /\ kwargs \in Kwargs
    /\ start_time = datetime("2024-01-01", "00:00:00", 0)
    /\ end_time = datetime("2024-01-02", "12:30:00", 250000)
    /\ max_attempts = 0 /\ query = "" /\ max_events = 0 /\ max_values = 0
    /\ case_insensitive = FALSE
    /\ payload = JNull
    /\ pc = "call"
    /\ response = NoResponse
    /\ operation_id = JNull
    /\ results_url = JNull
    /\ attempt = 0
    /\ results_response = NoResponse
    /\ outcome = JNull
    /\ trace = <<>>
    /\ urls = {}
    /\ all_pending = TRUE
    /\ calls = <<>>
    /\ session = {}
    /\ _session = JNull
    /\ created = 0
    /\ access = <<>>
    /\ overlapped = FALSE

\* summarize_entity from its first statement to the request being ready, or
\* to the ValueError
summarize_entity_prepare ==
    /\ method = "summarize_entity"
    /\ pc = "call"
    /\ LET params == summarize_entity_params(start_time, end_time, kwargs) IN
       IF IsExc(params)
       THEN pc' = "raised" /\ outcome' = params /\ payload' = payload
       ELSE pc' = "request" /\ outcome' = outcome /\ payload' = params
    /\ UNCHANGED <<self, kwargs, property, threads, method, max_attempts, arguments,
                   response, operation_id, results_url, attempt, results_response,
                   trace, urls, all_pending>>

\* response = self.session.get(url, params=params) and what follows it
summarize_entity_get ==
    /\ method = "summarize_entity"
    /\ pc = "request"
    /\ session_property
    /\ trace' = Append(trace, "GET")
    /\ urls' = urls \cup {summarize_entity_url(self.base_url, self.instance_id)}
    /\ \E r \in SummaryResponses :
          /\ response' = r
          /\ outcome' = IF r.status_code # 200
                        THEN APIError("Error getting entity summary: {response.text}",
                                      <<r.text>>)
                        ELSE summarize_entity_parsed(r)
          /\ pc' = IF r.status_code # 200 \/ IsExc(summarize_entity_parsed(r))
                   THEN "raised" ELSE "returned"
    /\ UNCHANGED <<self, kwargs, access, overlapped, threads, method, max_attempts,
                   arguments, payload, operation_id, results_url, attempt,
                   results_response, all_pending>>

NextSummary ==
    \/ summarize_entity_prepare
    \/ summarize_entity_get

SpecSummary == InitSummary /\ [][NextSummary]_vars

----------------------------------------------------------------------------
(* What the claims read off a state *)

Count(seq, x) == Cardinality({i \in 1..Len(seq) : seq[i] = x})
Posts == Count(trace, "POST")
Gets == Count(trace, "GET")
Sleeps == Count(trace, "sleep")
LastStep == IF trace = <<>> THEN "none" ELSE trace[Len(trace)]

IsSearch == method \in {"search_udm", "get_stats"}
Submitted == IsSearch /\ results_url # JNull
Polled == IsSearch /\ results_response # NoResponse

IsAPIError == pc = "raised" /\ outcome.x = "APIError"
IsTimeout ==
    IsAPIError /\ outcome.fmt = "Search timed out after {max_attempts} attempts"

\* the object a poll body stands for: itself, or the first element of an array
PollBody ==
    LET b == results_response.text IN
    IF b.t = "list" /\ b.e # <<>> THEN b.e[1] ELSE b

\* the value at a field of an object, Absent when the object has no such field
Field(o, k) == IF o.t = "obj" /\ k \in DOMAIN o.f THEN o.f[k] ELSE Absent
\* an object whose operation and response fields, when present, are objects
WellFormed(o) ==
    /\ o.t = "obj"
    /\ Field(o, "operation").t \in {"absent", "obj"}
    /\ Field(o, "response").t \in {"absent", "obj"}
\* the three completion flags of a poll body, in the order done,
\* operation.done, response.complete
FlagsAt(o) ==
    <<Field(o, "done"), Field(Field(o, "operation"), "done"),
      Field(Field(o, "response"), "complete")>>

----------------------------------------------------------------------------
(* C1 *)

\* C1: with max_attempts = N >= 1, a successful submit and every poll a 200
\* with no completion flag set, the call never issues more than N GETs, ends
\* only by the timeout error, then having issued exactly N GETs, all to the
\* streamSearch URL, and takes no step after it.
C1_TimeoutAfterExactlyN ==
    (Submitted /\ max_attempts >= 1 /\ all_pending) =>
        /\ Gets <= max_attempts
        /\ Posts = 1
        /\ urls \subseteq {results_url}
        /\ (pc \in Terminal => IsTimeout /\ Gets = max_attempts /\ ~ENABLED Next)
        /\ (pc = "loop" /\ Gets = max_attempts =>
                ~ENABLED (search_udm_get \/ get_stats_get))

C1_Witness ==
    /\ method = "get_stats" /\ max_attempts = 3 /\ all_pending
    /\ IsTimeout /\ Gets = 3

----------------------------------------------------------------------------
(* C2 *)

\* a poll body with a true flag at location i and no flag at the other two
TrueOnlyAt(o, i) ==
    /\ WellFormed(o)
    /\ \A j \in 1..3 : FlagsAt(o)[j] = IF j = i THEN JTrue ELSE Absent

\* C2: a 200 poll response with a true flag at one of the three locations and
\* none at the other two ends the polling at that attempt: the call is over
\* right after that GET, without a sleep, and not by the timeout error.
C2_EachFlagAloneCompletes ==
    (Polled /\ results_response.status_code = 200
        /\ \E i \in 1..3 : TrueOnlyAt(PollBody, i)) =>
        /\ pc \in Terminal
        /\ LastStep = "GET"
        /\ ~IsTimeout
        /\ Gets = attempt + 1

C2_Witness ==
    /\ method = "get_stats" /\ pc = "returned" /\ attempt = 1
    /\ TrueOnlyAt(PollBody, 3)

----------------------------------------------------------------------------
(* C3 *)

\* an object that carries the operation identifier in operation or in name
CarriesId(o) ==
    /\ o.t = "obj"
    /\ \/ Field(o, "operation") # Absent /\ truthy(Field(o, "operation"))
       \/ Field(o, "name") # Absent /\ truthy(Field(o, "name"))

\* the identifier the method extracts from a submit body, null when it fails
ExtractedFrom(operation) ==
    LET id == IF method = "search_udm" THEN search_udm_operation_id(operation)
              ELSE get_stats_operation_id(operation)
    IN  IF IsExc(id) THEN JNull ELSE id

\* C3: the identifier extracted from the single-element array [r] is the one
\* extracted from the bare object r, for every r carrying it in operation or
\* in name.
C3_SameIdBareOrArray ==
    (IsSearch /\ response.status_code = 200 /\ response.text.t = "list"
        /\ Len(response.text.e) = 1 /\ CarriesId(response.text.e[1])) =>
        operation_id = ExtractedFrom(response.text.e[1])

----------------------------------------------------------------------------
(* C4 *)

\* a true value at one of the three flag locations
Flagged(o) == \E j \in 1..3 : FlagsAt(o)[j] # Absent /\ truthy(FlagsAt(o)[j])

\* the values at the two recognized paths of the method's payload
PayloadsAt(o) ==
    IF method = "search_udm"
    THEN <<Field(Field(Field(o, "response"), "events"), "events"),
           Field(Field(Field(Field(o, "operation"), "response"), "events"), "events")>>
    ELSE <<Field(Field(o, "response"), "stats"),
           Field(Field(Field(o, "operation"), "response"), "stats")>>

\* C4: a 200 poll response flagged complete that has no payload at either
\* recognized path makes the call fail with an APIError.
C4_CompleteWithoutPayloadFails ==
    (Polled /\ results_response.status_code = 200 /\ WellFormed(PollBody)
        /\ Flagged(PollBody) /\ PayloadsAt(PollBody) = <<Absent, Absent>>) =>
        IsAPIError

----------------------------------------------------------------------------
(* C5 *)

\* the stats block _process_stats_results was applied to, and its columns
StatsInput == results_response.text.f["response"].f["stats"]
StatsColumns == StatsInput.f["results"].e
Shaped == method = "_process_stats_results" /\ pc \in Terminal

ValuesOf(col) == col.f["values"].e
NameOf(col) == col.f["column"].s
\* the number of values of the columns, when they all have the same
StatsHeight == IF StatsColumns = <<>> THEN 0 ELSE Len(ValuesOf(StatsColumns[1]))
EqualHeights ==
    \A j \in 1..Len(StatsColumns) : Len(ValuesOf(StatsColumns[j])) = StatsHeight
DistinctNames ==
    \A j, k \in 1..Len(StatsColumns) :
        NameOf(StatsColumns[j]) = NameOf(StatsColumns[k]) => j = k

\* an object of the form {stringVal: s} or {int64Val: n}
IsTyped(v) == v.t = "obj" /\ DOMAIN v.f \in {{"stringVal"}, {"int64Val"}}
\* the string of a stringVal, the integer an int64Val is the decimal of
Scalar(v) ==
    IF "stringVal" \in DOMAIN v.f THEN v.f["stringVal"]
    ELSE JInt(CHOOSE n \in 0..99 : ToString(n) = v.f["int64Val"].s)

\* every value directly of the form {stringVal: s} or {int64Val: n}
AllBare ==
    \A j \in 1..Len(StatsColumns) :
        \A i \in 1..Len(ValuesOf(StatsColumns[j])) : IsTyped(ValuesOf(StatsColumns[j])[i])
\* every value of the form {value: {stringVal: s}} or {value: {int64Val: n}}
AllWrapped ==
    \A j \in 1..Len(StatsColumns) :
        \A i \in 1..Len(ValuesOf(StatsColumns[j])) :
            LET cell == ValuesOf(StatsColumns[j])[i] IN
            DOMAIN cell.f = {"value"} /\ IsTyped(cell.f["value"])

\* the typed object of a cell, wrapped in {value: ...} or not
Typed(cell, wrapped) == IF wrapped THEN cell.f["value"] ELSE cell

\* the result is the transpose: StatsHeight rows, row i mapping every column
\* name to that column's i-th value
IsTranspose(wrapped) ==
    /\ pc = "returned"
    /\ outcome.f["rows"].t = "list"
    /\ Len(outcome.f["rows"].e) = StatsHeight
    /\ \A i \in 1..StatsHeight :
          LET row == outcome.f["rows"].e[i] IN
          /\ DOMAIN row.f = {NameOf(StatsColumns[j]) : j \in 1..Len(StatsColumns)}
          /\ \A j \in 1..Len(StatsColumns) :
                row.f[NameOf(StatsColumns[j])]
                    = Scalar(Typed(ValuesOf(StatsColumns[j])[i], wrapped))

\* C5 as stated: columns of equal height whose values are {stringVal: s} or
\* {int64Val: n} placed directly in the values list shape to the transpose.
C5_BareValuesTransposed ==
    (Shaped /\ EqualHeights /\ AllBare) => IsTranspose(FALSE)

\* C5 as amended: columns of distinct names and equal height whose values are
\* {value: {stringVal: s}} or {value: {int64Val: n}} shape to the transpose:
\* as many rows as a column has values, row i mapping every column name to
\* that column's i-th value, the string or the integer.
C5_WrappedValuesTransposed ==
    (Shaped /\ EqualHeights /\ DistinctNames /\ AllWrapped) => IsTranspose(TRUE)

C5_Witness ==
    /\ Shaped /\ EqualHeights /\ DistinctNames /\ AllWrapped
    /\ Len(StatsColumns) = 2 /\ StatsHeight = 2
    /\ outcome.f["rows"].e[2]
         = dict({<<"host", JStr("b")>>, <<"count", JInt(6)>>})

----------------------------------------------------------------------------
(* C6 *)

\* the event lists a poll body carries at the two recognized paths
EventLists(o) ==
    {l \in {Field(Field(Field(o, "response"), "events"), "events"),
            Field(Field(Field(Field(o, "operation"), "response"), "events"), "events")} :
        l.t = "list" /\ l.e # <<>>}

\* C6: whenever search_udm returns, the result is {events: E, total_events: n}
\* with E an event list the completing poll response carries, whole and in
\* its order (the empty list when it carries none), and n the length of E.
C6_EventsReturnedWhole ==
    (method = "search_udm" /\ pc = "returned") =>
        /\ outcome.t = "obj"
        /\ DOMAIN outcome.f = {"events", "total_events"}
        /\ outcome.f["events"].t = "list"
        /\ outcome.f["total_events"] = JInt(Len(outcome.f["events"].e))
        /\ IF EventLists(PollBody) = {}
           THEN outcome.f["events"] = EmptyList
           ELSE outcome.f["events"] \in EventLists(PollBody)

C6_Witness ==
    /\ method = "search_udm" /\ pc = "returned"
    /\ outcome = dict({<<"events", JList(<<E1, E2>>)>>, <<"total_events", JInt(2)>>})

----------------------------------------------------------------------------
(* C7 *)

\* C7: a poll GET answered with a status other than 200 ends the call with
\* the fetch APIError right there: the GET is the last step taken, no attempt
\* is counted or slept for it, and no step follows.
C7_PollErrorNotRetried ==
    (Polled /\ results_response.status_code # 200) =>
        /\ IsAPIError
        /\ outcome.fmt = "Error fetching results: {results_response.text}"
        /\ LastStep = "GET"
        /\ Gets = attempt + 1
        /\ Sleeps = attempt
        /\ Posts = 1
        /\ ~ENABLED Next

C7_Witness ==
    /\ method = "get_stats" /\ max_attempts = 3 /\ attempt = 1
    /\ results_response.status_code = 500 /\ pc = "raised"

----------------------------------------------------------------------------
(* C8 *)

\* C8: a submit POST answered with a status other than 200 ends the call with
\* an APIError carrying the status code and the response text; the POST is
\* the only request of the call.
C8_SubmitErrorImmediate ==
    (IsSearch /\ response # NoResponse /\ response.status_code # 200) =>
        /\ IsAPIError
        /\ outcome.args = <<JInt(response.status_code), response.text>>
        /\ trace = <<"POST">>
        /\ ~ENABLED Next

C8_Witness ==
    /\ method = "search_udm" /\ response.status_code = 403 /\ pc = "raised"
    /\ max_attempts = 3

----------------------------------------------------------------------------
(* C9 *)

\* the values of the operation and name fields of the submit response
SubmittedIds ==
    LET b == response.text
        o == IF b.t = "list" /\ b.e # <<>> THEN b.e[1] ELSE b
    IN  {Field(o, "operation"), Field(o, "name")} \ {Absent}

\* C9: a call issues at most one POST; once it holds an operation identifier
\* it is one the submit response gave, and every poll GET of the call went to
\* <base_url>/<that identifier>:streamSearch.
C9_OneOperationOneUrl ==
    IsSearch =>
        /\ Posts <= 1
        /\ (results_url = JNull => urls = {} /\ operation_id = JNull)
        /\ (results_url # JNull =>
                /\ operation_id \in SubmittedIds
                /\ results_url = [base_url |-> self.base_url,
                                  operation_id |-> operation_id,
                                  verb |-> ":streamSearch"]
                /\ urls \subseteq {results_url})
        /\ (Gets > 0 => urls # {})

C9_Witness ==
    /\ method = "search_udm" /\ Gets = 3 /\ Cardinality(urls) = 1
    /\ operation_id = Op1
    /\ Field(PollBody, "operation") # Absent

----------------------------------------------------------------------------
(* C10 *)

Done == pc = "returned"
TimedOutcome == IsTimeout
Failed == pc = "raised" /\ ~IsTimeout

\* C10: every call eventually reaches, and stays in, exactly one of the
\* terminal outcomes Done, TimedOut and Failed.
C10_Terminates ==
    <>[](/\ pc \in Terminal
         /\ Cardinality({k \in {"Done", "TimedOut", "Failed"} :
                \/ k = "Done" /\ Done
                \/ k = "TimedOut" /\ TimedOutcome
                \/ k = "Failed" /\ Failed}) = 1)

C10_Witness ==
    /\ method = "search_udm" /\ pc = "returned"
    /\ max_attempts = 3 /\ Gets = 3 /\ Sleeps = 2

----------------------------------------------------------------------------
(* C11 *)

\* C11: whatever the backend answers, a call of search_udm or get_stats that
\* fails raises an APIError and no other exception type.
C11_EveryFailureIsAPIError ==
    (IsSearch /\ pc = "raised") => outcome.x = "APIError"

----------------------------------------------------------------------------
(* C12 *)

\* C12: the number the timeout error names is the number of poll GETs the
\* call made, for every max_attempts.
C12_TimeoutNamesGetsMade ==
    (IsSearch /\ IsTimeout) => outcome.args = <<JInt(Gets)>>

----------------------------------------------------------------------------
(* C13 *)

\* C13: the error raised for a poll GET answered with a status other than 200
\* carries the status code and the body of that response.
C13_PollErrorCarriesStatusAndBody ==
    (Polled /\ results_response.status_code # 200) =>
        /\ IsAPIError
        /\ \E i \in 1..Len(outcome.args) :
              outcome.args[i] = JInt(results_response.status_code)
        /\ \E i \in 1..Len(outcome.args) : outcome.args[i] = results_response.text

----------------------------------------------------------------------------
(* C14 *)

ClientFields == {"customer_id", "project_id", "region", "instance_id", "base_url"}

\* C14: no step of a search_udm or get_stats call changes one of the caller's
\* arguments or one of the client's fields customer_id, project_id, region,
\* instance_id and base_url, and the submit payload, once built, stays as it
\* was built.
C14_RequestImmutable ==
    [][IsSearch =>
          /\ UNCHANGED <<query, start_time, end_time, max_events, max_values,
                         case_insensitive, max_attempts>>
          /\ (payload # JNull => payload' = payload)
          /\ \A f \in ClientFields : self'[f] = self[f]]_vars

C14_Witness ==
    /\ method = "get_stats" /\ pc = "returned" /\ Gets = 3 /\ Sleeps = 2
    /\ ~case_insensitive
    /\ payload = get_stats_payload(query, start_time, end_time, 60, 10000, FALSE)

----------------------------------------------------------------------------
(* C15 *)

\* the operation ids the response to call c's POST names
CallIds(c) ==
    {Field(calls[c].response.text, "operation"),
     Field(calls[c].response.text, "name")} \ {Absent}

\* the method's result for the completed body of the operation id
ResultNaming(m, id) ==
    IF m = "search_udm"
    THEN dict({<<"events", JList(<<dict({<<"name", id>>})>>)>>,
               <<"total_events", JInt(1)>>})
    ELSE dict({<<"columns", JList(<<JStr("host")>>)>>,
               <<"rows", JList(<<dict({<<"host", id>>})>>)>>,
               <<"total_rows", JInt(1)>>})

\* each call's attempt counter counts its own pending polls, its operation
\* id is one the response to its own POST gave, its GETs went and go to the
\* URL of that operation and are at most max_attempts, and what it returns
\* is the payload the backend holds for that operation
OwnLocals ==
    \A c \in Calls :
        LET k == calls[c]
            own == stream_search_url(self.base_url, k.operation_id)
        IN  /\ k.attempt = k.pending
            /\ (k.operation_id # JNull => k.operation_id \in CallIds(c))
            /\ k.urls \subseteq {own}
            /\ (k.pc = "get" => InFlight(c) = Request(c, "GET", own))
            /\ k.gets <= k.max_attempts
            /\ (k.pc = "returned" =>
                    k.outcome = ResultNaming(k.method, k.operation_id))

\* a step changes the locals of one call at most
OneCallPerStep == \E c \in Calls : \A d \in Calls \ {c} : calls'[d] = calls[d]

\* C15: of two calls running concurrently on one client, under every
\* interleaving, each keeps its own attempt counter and operation id, polls
\* only the URL of its own operation, at most max_attempts times, and
\* returns only the payload of its own operation; a step of one call leaves
\* the other call's locals as they are, the session being all they share.
C15_CallsShareOnlySession == []OwnLocals /\ [][OneCallPerStep]_vars

C15_Witness ==
    /\ calls[1].method = "search_udm" /\ calls[2].method = "get_stats"
    /\ calls[1].pc = "returned" /\ calls[1].gets = 2
    /\ calls[1].operation_id = Op1
    /\ calls[2].pc = "get" /\ calls[2].attempt = 1
    /\ calls[2].operation_id = Op2

----------------------------------------------------------------------------
(* C16 *)

\* C16: a submit POST answered 200 with a JSON body that holds no operation
\* id, neither field being there or the value read being empty or null, ends
\* the call with an APIError before a poll URL is built: the POST is the only
\* step, no GET and no sleep, and nothing follows.
C16_NoOperationIdNoPolling ==
    (IsSearch /\ response.status_code = 200 /\ response.text.t # "raw"
        /\ \A v \in SubmittedIds : ~truthy(v)) =>
        /\ IsAPIError
        /\ results_url = JNull /\ operation_id = JNull
        /\ Gets = 0 /\ Sleeps = 0 /\ trace = <<"POST">>
        /\ ~ENABLED Next

C16_Witness ==
    /\ method = "search_udm" /\ max_attempts = 3 /\ pc = "raised"
    /\ response = Http(200, dict({<<"operation", JNull>>, <<"name", JNull>>}))
    /\ outcome.fmt = "No operation ID found in response: {operation}"

----------------------------------------------------------------------------
(* C17 *)

\* the payload the method reads from a poll body: the first of the two
\* recognized paths that holds a true value, else the second
PayloadRead(o) ==
    LET p == PayloadsAt(o) IN
    IF p[1] # Absent /\ truthy(p[1]) THEN p[1] ELSE p[2]

\* a 200 poll response that reports completion and carries a payload: a
\* list of events for search_udm, a stats block of wrapped cells for get_stats
CompletesWithPayload ==
    /\ results_response.status_code = 200
    /\ WellFormed(PollBody)
    /\ Flagged(PollBody)
    /\ IF method = "search_udm"
       THEN PayloadRead(PollBody).t = "list" /\ PayloadRead(PollBody).e # <<>>
       ELSE PayloadRead(PollBody) \in {HostCount, OperationStats}

\* C17: when the polls before poll number max_attempts were pending and that
\* last allowed poll reports completion with a payload, the call returns the
\* result and raises no timeout; the timeout error is raised only when every
\* poll made, max_attempts of them, was pending.
C17_CeilingInclusive ==
    /\ (Polled /\ max_attempts >= 1 /\ Gets = max_attempts
            /\ attempt = max_attempts - 1 /\ CompletesWithPayload) =>
            /\ pc = "returned"
            /\ LastStep = "GET"
            /\ ~ENABLED Next
    /\ (IsSearch /\ IsTimeout) =>
            /\ all_pending
            /\ (max_attempts >= 1 => Gets = max_attempts /\ attempt = max_attempts)

C17_Witness ==
    /\ method = "get_stats" /\ max_attempts = 2 /\ Gets = 2 /\ attempt = 1
    /\ CompletesWithPayload /\ pc = "returned"
    /\ outcome.f["total_rows"] = JInt(1)

----------------------------------------------------------------------------
(* C18 *)

\* C18: a 200 poll response is taken as pending, the call going on to sleep,
\* exactly when none of done, operation.done and response.complete holds a
\* true value; with a true value at any of the three, a false one before it
\* or not, the call ends at that GET.
C18_CompletionIsDisjunction ==
    (Polled /\ LastStep = "GET" /\ results_response.status_code = 200
        /\ WellFormed(PollBody)) =>
        /\ pc = "sleep" <=> ~Flagged(PollBody)
        /\ pc \in Terminal <=> Flagged(PollBody)
        /\ Gets = IF Flagged(PollBody) THEN attempt + 1 ELSE attempt

C18_Witness ==
    /\ method = "search_udm" /\ LastStep = "GET" /\ pc = "returned"
    /\ FlagsAt(PollBody) = <<JFalse, JFalse, JTrue>>
    /\ Gets = 2

----------------------------------------------------------------------------
(* C19 *)

\* the steps of a call so far: the POST, then GETs and sleeps in turn
Alternating ==
    \A i \in 1..Len(trace) :
        trace[i] = IF i = 1 THEN "POST" ELSE IF i % 2 = 0 THEN "GET" ELSE "sleep"

\* a 200 poll without completion is followed by one increment of attempt and
\* one sleep before any other step, the last allowed poll included; no sleep
\* follows a completing or a non-200 poll; GETs and sleeps alternate
Pacing ==
    /\ Alternating
    /\ (pc = "sleep" =>
            /\ LastStep = "GET" /\ results_response.status_code = 200
            /\ attempt = Sleeps + 1
            /\ ENABLED (search_udm_sleep \/ get_stats_sleep)
            /\ ~ENABLED (search_udm_get \/ get_stats_get \/ search_udm_timeout
                         \/ get_stats_timeout \/ search_udm_post \/ get_stats_post))
    /\ (pc # "sleep" => attempt = Sleeps)
    /\ (LastStep = "GET" /\ pc # "sleep" =>
            /\ pc \in Terminal /\ ~IsTimeout
            /\ (results_response.status_code # 200
                    \/ ~WellFormed(PollBody) \/ Flagged(PollBody)))
    /\ (LastStep = "GET" /\ results_response.status_code = 200
            /\ WellFormed(PollBody) /\ ~Flagged(PollBody) => pc = "sleep")
    /\ (IsTimeout /\ max_attempts >= 1 =>
            LastStep = "sleep" /\ Sleeps = max_attempts)

\* C19 as stated: the pacing above, and a call that has ended has slept
\* max_attempts times at most.
C19_SleepsWithinMaxAttempts ==
    IsSearch => Pacing /\ (pc \in Terminal => Sleeps <= max_attempts)

\* C19: the pacing above, and the sleeps of a call never more than
\* max(0, max_attempts).
C19_SleepsWithinCeiling ==
    IsSearch => Pacing /\ Sleeps <= (IF max_attempts > 0 THEN max_attempts ELSE 0)

C19_Witness ==
    /\ method = "search_udm" /\ max_attempts = 3 /\ IsTimeout
    /\ trace = <<"POST", "GET", "sleep", "GET", "sleep", "GET", "sleep">>
    /\ attempt = 3

----------------------------------------------------------------------------
(* C20 *)

\* the stats block a completed get_stats poll hands to the shaping, or the
\* one _process_stats_results is applied to
StatsGiven ==
    IF method = "_process_stats_results" THEN StatsInput ELSE PayloadRead(PollBody)

\* two columns of the stats block differ in their number of values
Uneven(stats) ==
    \E i, j \in 1..Len(stats.f["results"].e) :
        Len(ValuesOf(stats.f["results"].e[i])) # Len(ValuesOf(stats.f["results"].e[j]))

\* a completed stats block has been handed to the shaping
StatsShaped ==
    \/ Shaped
    \/ /\ method = "get_stats" /\ Polled /\ pc \in Terminal
       /\ results_response.status_code = 200
       /\ WellFormed(PollBody) /\ Flagged(PollBody)
       /\ PayloadRead(PollBody).t = "obj"

\* C20: a completed stats block in which two columns differ in their number
\* of values, whichever is the longer, makes the shaping fail with the
\* processing APIError; no rows are returned.
C20_UnevenColumnsFail ==
    (StatsShaped /\ Uneven(StatsGiven)) =>
        /\ IsAPIError
        /\ outcome.fmt = "Error processing stats results: {str(e)}"

----------------------------------------------------------------------------
(* C21 *)

\* every cell of the stats block has the form {value: {...}}
WrappedCells ==
    \A j \in 1..Len(StatsColumns) :
        \A i \in 1..Len(ValuesOf(StatsColumns[j])) :
            "value" \in DOMAIN ValuesOf(StatsColumns[j])[i].f

\* a column after the first has fewer values than the first
LaterColumnShorter ==
    \E j \in 2..Len(StatsColumns) : Len(ValuesOf(StatsColumns[j])) < StatsHeight

\* C21: the shaping returns as many rows as the first column has values,
\* whatever the other columns hold beyond them; a later column with fewer
\* values than the first makes it fail, with an IndexError wrapped in the
\* APIError when the cells are of the form {value: ...}, and never cuts the
\* rows to the shortest column.
C21_RowsFromFirstColumn ==
    Shaped =>
        /\ (pc = "returned" =>
                /\ Len(outcome.f["rows"].e) = StatsHeight
                /\ outcome.f["total_rows"] = JInt(StatsHeight))
        /\ (LaterColumnShorter =>
                /\ IsAPIError
                /\ outcome.fmt = "Error processing stats results: {str(e)}"
                /\ (WrappedCells => outcome.args[1].x = "IndexError"))

C21_Witness ==
    /\ Shaped /\ LaterColumnShorter /\ WrappedCells
    /\ StatsHeight = 2 /\ Len(ValuesOf(StatsColumns[2])) = 1
    /\ IsAPIError /\ outcome.args[1].x = "IndexError"

----------------------------------------------------------------------------
(* C22 *)

\* the cell the claim gives a value object: its stringVal when it has one,
\* else the integer of its int64Val, else null
Tagged(v) ==
    IF "stringVal" \in DOMAIN v.f THEN v.f["stringVal"]
    ELSE IF "int64Val" \in DOMAIN v.f
    THEN JInt(CHOOSE n \in 0..99 : ToString(n) = v.f["int64Val"].s)
    ELSE JNull

\* no column after column j has the name of column j
LastOfName(j) ==
    \A k \in (j + 1)..Len(StatsColumns) :
        NameOf(StatsColumns[k]) # NameOf(StatsColumns[j])

\* some cell has a value object of that set of tags
HasCellTagged(tags) ==
    \E j \in 1..Len(StatsColumns) :
        \E i \in 1..StatsHeight :
            DOMAIN ValuesOf(StatsColumns[j])[i].f["value"].f = tags

\* C22: over cells of the form {value: {...}} and columns at least as long as
\* the first, the shaping returns; every column stays listed, every row is
\* there with every column name as a key, a value object with neither tag
\* gives null in its row, and one with both tags gives its stringVal.
C22_UntaggedCellIsNull ==
    (Shaped /\ WrappedCells /\ ~LaterColumnShorter) =>
        /\ pc = "returned"
        /\ outcome.f["columns"]
             = JList([j \in 1..Len(StatsColumns) |-> JStr(NameOf(StatsColumns[j]))])
        /\ Len(outcome.f["rows"].e) = StatsHeight
        /\ \A i \in 1..StatsHeight :
              LET row == outcome.f["rows"].e[i] IN
              /\ DOMAIN row.f = {NameOf(StatsColumns[j]) : j \in 1..Len(StatsColumns)}
              /\ \A j \in 1..Len(StatsColumns) :
                    LastOfName(j) =>
                        row.f[NameOf(StatsColumns[j])]
                            = Tagged(ValuesOf(StatsColumns[j])[i].f["value"])

C22_Witness ==
    /\ Shaped /\ WrappedCells /\ ~LaterColumnShorter
    /\ Len(StatsColumns) = 2 /\ StatsHeight = 2
    /\ HasCellTagged({"doubleVal"}) /\ HasCellTagged({"stringVal", "int64Val"})
    /\ pc = "returned"
    /\ outcome.f["rows"].e[2] = dict({<<"host", JStr("b")>>, <<"count", JNull>>})

----------------------------------------------------------------------------
(* C23 *)

\* the outcome of get_stats on a completed response whose stats are read as v
StatsOutcome(v) ==
    LET shaped == _process_stats_results(
                      dict({<<"response", dict({<<"stats", v>>})>>}))
    IN  IF v = Absent \/ ~truthy(v)
        THEN IsAPIError /\ outcome.fmt = "No stats found in completed response"
        ELSE IF IsExc(shaped) THEN pc = "raised" /\ outcome = shaped
        ELSE pc = "returned" /\ outcome = shaped

\* C23: on a 200 poll response that reports completion, the payload is the
\* value at the first recognized path when that value is non-empty and the
\* value at the second path otherwise, never a mixture: search_udm returns
\* exactly that list of events (the empty list when the second path is absent
\* too), get_stats ends with exactly the shaping of that stats block.
C23_FirstNonEmptyPathWins ==
    (Polled /\ pc \in Terminal /\ results_response.status_code = 200
            /\ WellFormed(PollBody) /\ Flagged(PollBody)) =>
        IF method = "search_udm"
        THEN pc = "returned" =>
                /\ outcome.f["events"]
                     = IF PayloadRead(PollBody) = Absent THEN EmptyList
                       ELSE PayloadRead(PollBody)
                /\ outcome.f["total_events"] = len(outcome.f["events"])
        ELSE StatsOutcome(PayloadRead(PollBody))

C23_Witness ==
    /\ Polled /\ pc = "returned" /\ results_response.status_code = 200
    /\ WellFormed(PollBody) /\ Flagged(PollBody)
    /\ method = "get_stats"
    /\ PayloadsAt(PollBody) = <<HostCount, OperationStats>>
    /\ Len(outcome.f["columns"].e) = 2

----------------------------------------------------------------------------
(* C24 *)

\* a poll body that carries neither events nor stats at any recognized path
PayloadFree(o) ==
    /\ Field(Field(o, "response"), "events") = Absent
    /\ Field(Field(o, "response"), "stats") = Absent
    /\ Field(Field(Field(o, "operation"), "response"), "events") = Absent
    /\ Field(Field(Field(o, "operation"), "response"), "stats") = Absent

\* C24: search_udm and get_stats stay in lockstep: on the submit response
\* received both go on to poll or both fail, and on the poll response
\* received, when it is an error status or a body with no payload for either
\* of them, both make the same kind of step (return, raise, or sleep and poll
\* again), so that their traces and terminal states agree.
C24_SamePoller ==
    IsSearch =>
        /\ Posts = 1 =>
              IsExc(search_udm_submits[response]) = IsExc(get_stats_submits[response])
        /\ (Polled /\ (results_response.status_code # 200 \/ PayloadFree(PollBody))) =>
              search_udm_polls[results_response].k = get_stats_polls[results_response].k

----------------------------------------------------------------------------
(* C25 *)

\* what the method of the call makes of the poll response r
StepOn(r) ==
    IF method = "search_udm" THEN search_udm_polls[r] ELSE get_stats_polls[r]

\* the call is where the loop body's step on the last poll response left it
Took(step) ==
    CASE step.k = "return" -> pc = "returned" /\ outcome = step.v
      [] step.k = "raise" -> pc = "raised" /\ outcome = step.v
      [] step.k = "continue" -> pc \in {"sleep", "loop"} \/ IsTimeout

\* the last poll response was a 200 whose body is a non-empty array
ArrayPolled ==
    /\ Polled /\ results_response.status_code = 200
    /\ results_response.text.t = "list" /\ results_response.text.e # <<>>

\* C25: a 200 poll response that is a non-empty array is treated exactly as
\* the 200 response whose body is its first element: same return value, same
\* error, or the poll counts as pending; whatever the later elements carry,
\* an array whose first element sets no completion flag is pending.
C25_ArrayReadByFirstElement ==
    ArrayPolled =>
        /\ Took(StepOn(Http(200, results_response.text.e[1])))
        /\ (WellFormed(PollBody) /\ ~Flagged(PollBody)) =>
              (pc \in {"sleep", "loop"} \/ IsTimeout)

C25_Witness ==
    /\ ArrayPolled
    /\ results_response.text
         = JList(<<dict({<<"done", JFalse>>}), dict({<<"done", JTrue>>})>>)
    /\ pc = "sleep"

----------------------------------------------------------------------------
(* C26 *)

\* a stats result has been returned: by get_stats, or by the shaping that
\* get_stats returns the result of, applied to a non-empty stats block
StatsReturned ==
    /\ method \in {"get_stats", "_process_stats_results"}
    /\ pc = "returned"

\* C26: a result returned by get_stats has exactly the keys columns, rows and
\* total_rows; total_rows is the number of rows; every row has as its keys
\* exactly the names listed in columns.
C26_ResultShape ==
    StatsReturned =>
        /\ DOMAIN outcome.f = {"columns", "rows", "total_rows"}
        /\ outcome.f["total_rows"] = JInt(Len(outcome.f["rows"].e))
        /\ \A i \in 1..Len(outcome.f["rows"].e) :
              DOMAIN outcome.f["rows"].e[i].f
                  = {outcome.f["columns"].e[j].s :
                        j \in 1..Len(outcome.f["columns"].e)}

C26_Witness ==
    /\ method = "get_stats" /\ pc = "returned"
    /\ outcome.f["columns"] = JList(<<JStr("host"), JStr("count")>>)
    /\ outcome.f["rows"]
         = JList(<<dict({<<"host", JStr("a")>>, <<"count", JInt(3)>>})>>)
    /\ outcome.f["total_rows"] = JInt(1)

----------------------------------------------------------------------------
(* C27 *)

\* max(0, max_attempts)
Ceiling == IF max_attempts > 0 THEN max_attempts ELSE 0

\* C27: throughout a search_udm or get_stats call the number of GETs issued
\* is the attempt counter or one more, and at most max(0, max_attempts); with
\* max_attempts <= 0 no GET and no sleep is ever issued, the call ends only
\* after its one POST, and once the submit has yielded an operation id it
\* ends by the timeout error.
C27_GetsTrackAttempt ==
    IsSearch =>
        /\ Gets \in {attempt, attempt + 1}
        /\ Gets <= Ceiling
        /\ max_attempts <= 0 =>
              /\ Gets = 0 /\ Sleeps = 0
              /\ pc \in Terminal => Posts = 1
              /\ (pc \in Terminal /\ Submitted) => IsTimeout

C27_Witness ==
    /\ IsSearch /\ max_attempts <= 0 /\ Submitted
    /\ trace = <<"POST">> /\ attempt = 0 /\ IsTimeout

----------------------------------------------------------------------------
(* C28 *)

\* the sessions thread t has obtained from the property
Got(t) == {access[t].got[i] : i \in 1..Len(access[t].got)}

\* C28: as long as the API calls made on the client have followed one another
\* without overlapping, at most one authorized session has been constructed,
\* it is the one the client holds, and every access, by whichever call, has
\* obtained that one session.
C28_SessionCreatedOnce ==
    ~overlapped =>
        /\ created <= 1
        /\ created = 1 => _session = AuthorizedSession(credentials, 1)
        /\ \A t \in Threads : Got(t) \subseteq {AuthorizedSession(credentials, 1)}
        /\ (\E t \in Threads : access[t].made > 0) => _session # JNull

C28_Witness ==
    /\ ~overlapped
    /\ \A t \in Threads : Len(access[t].got) = 2 /\ access[t].pc = "idle"
    /\ created = 1

----------------------------------------------------------------------------
(* C29 *)

\* C29 as stated: once both threads have made their first access, one
\* authorized session has been constructed and both have obtained it.
C29_AtMostOneSession ==
    (\A t \in Threads : Len(access[t].got) >= 1) =>
        /\ created <= 1
        /\ \A t, u \in Threads : access[t].got[1] = access[u].got[1]

\* C29, amended: every thread whose check finds no session constructs one of
\* its own, so that two threads construct at most two; the client holds the
\* session constructed last, and every thread obtains a session that one of
\* them constructed.
C29_SessionPerPassedCheck ==
    /\ created <= Cardinality(Threads)
    /\ _session = JNull <=> created = 0
    /\ created > 0 => _session = AuthorizedSession(credentials, created)
    /\ \A t \in Threads :
          Got(t) \subseteq {AuthorizedSession(credentials, n) : n \in 1..created}

C29_Witness ==
    /\ overlapped
    /\ created = 2
    /\ \A t \in Threads : Len(access[t].got) = 1
    /\ access[1].got[1] # access[2].got[1]

----------------------------------------------------------------------------
(* C30 *)

\* the parameters that identify the entity by field and value
FieldAndValue ==
    {"fieldAndValue.fieldPath", "fieldAndValue.value", "fieldAndValue.valueType",
     "fieldAndValue.entityNamespace"}

\* a non-empty argument
Given(v) == v # JNull /\ v # JStr("")

\* the field path and the value type of the call: the caller's when given,
\* else the detected one
FieldPath == IF Given(kwargs.field_path) THEN kwargs.field_path
             ELSE _detect_value_type(kwargs.value.s)[1]
TypeOfValue == IF Given(kwargs.value_type) THEN kwargs.value_type
               ELSE _detect_value_type(kwargs.value.s)[2]

\* the parameters of the request, once they are built, and the value of one
\* (Absent when it is not sent)
Params == IF payload = JNull THEN EmptyDict.f ELSE payload.f
Param(k) == IF k \in DOMAIN Params THEN Params[k] ELSE Absent

\* C30: once summarize_entity has built its parameters or failed: with a
\* non-empty entity_id, entityId is sent and no fieldAndValue.* parameter;
\* otherwise, with a field path (given or detected), fieldAndValue.fieldPath
\* and fieldAndValue.value are sent and no valueType, whatever value type
\* there is; otherwise, with a value type, fieldAndValue.valueType and
\* fieldAndValue.value are sent and no fieldPath; and with neither the call
\* has raised ValueError, no request was issued and no session created.
C30_ExclusiveIdentification ==
    (method = "summarize_entity" /\ pc # "call") =>
        IF Given(kwargs.entity_id)
        THEN /\ payload # JNull
             /\ Param("entityId") = kwargs.entity_id
             /\ DOMAIN Params \cap FieldAndValue = {}
        ELSE IF FieldPath # JNull
        THEN /\ payload # JNull
             /\ "entityId" \notin DOMAIN Params
             /\ Param("fieldAndValue.fieldPath") = FieldPath
             /\ Param("fieldAndValue.value") = kwargs.value
             /\ "fieldAndValue.valueType" \notin DOMAIN Params
        ELSE IF TypeOfValue # JNull
        THEN /\ payload # JNull
             /\ "entityId" \notin DOMAIN Params
             /\ Param("fieldAndValue.valueType") = TypeOfValue
             /\ Param("fieldAndValue.value") = kwargs.value
             /\ "fieldAndValue.fieldPath" \notin DOMAIN Params
        ELSE /\ pc = "raised" /\ outcome = Raise("ValueError")
             /\ payload = JNull /\ trace = <<>> /\ response = NoResponse
             /\ _session = JNull

C30_Witness ==
    /\ method = "summarize_entity" /\ pc = "returned"
    /\ ~Given(kwargs.entity_id)
    /\ kwargs.field_path = JNull /\ kwargs.value_type = JStr("USERNAME")
    /\ Param("fieldAndValue.fieldPath") = JStr("principal.ip")
    /\ "fieldAndValue.valueType" \notin DOMAIN Params

====
